---------------------------- MODULE Spec2Model ----------------------------
(***************************************************************************)
(* A model of the expr runtime (hpladim/expr): the symbol environment, the *)
(* lexer, the recursive-descent parser and the tree-walking evaluator.     *)
(*                                                                         *)
(* Text is a sequence of one-character strings.  An Expression is a record *)
(* [kind, name, value, addr, kids]: kind is the Go type, name the literal  *)
(* / symbol name / operand, value the payload of a Scalar, addr stands for *)
(* the pointer identity of the allocation, kids the child expressions.     *)
(***************************************************************************)
EXTENDS Integers, Sequences, FiniteSets, TLC

VARIABLES
    globalFuncs,          \* Environment.globalFuncs: name -> eValue
    AutoregisterGlobals,  \* Environment.AutoregisterGlobals
    fatal,                \* the process died of a stack overflow
    lockReq,              \* history: the last Lock(n, b) asked for, per name
    lastOp,               \* the last Environment call and what it returned
    pc,                   \* where the host is with the text: text, tree, failed, done
    job,                  \* what the host was given: the text or tree, and what it denotes
    tree,                 \* the Expression Parse returned or the host built
    perr,                 \* the error Parse returned
    outcome,              \* what Evaluate returned, and the trace of the evaluation
    tokens,               \* lexer.tokens and the goroutine run that sends on it
    client                \* the caller of NextToken and PushBack, with lexer.tokenStack

envVars == <<globalFuncs, AutoregisterGlobals, fatal, lockReq, lastOp>>

evalVars == <<pc, job, tree, perr, outcome>>

lexVars == <<tokens, client>>

vars == <<globalFuncs, AutoregisterGlobals, fatal, lockReq, lastOp,
          pc, job, tree, perr, outcome, tokens, client>>

-----------------------------------------------------------------------------
(* Bounds of the model *)

\* Depth of the Go call stack at which infinite recursion is cut off.
StackLimit == 3

-----------------------------------------------------------------------------
(* Text *)

sNull  == <<"n", "u", "l", "l">>
sTrue  == <<"t", "r", "u", "e">>
sFalse == <<"f", "a", "l", "s", "e">>
sEmpty == <<"e", "m", "p", "t", "y">>
sPrint == <<"p", "r", "i", "n", "t">>
sMultiply == <<"M", "u", "l", "t", "i", "p", "l", "y">>
sNULL  == <<"N", "U", "L", "L">>

-----------------------------------------------------------------------------
(* Payloads: the interface{} value of a ScalarExpr *)

NilV       == [t |-> "nil",    b |-> FALSE, i |-> 0, s |-> <<>>]
BoolV(x)   == [t |-> "bool",   b |-> x,     i |-> 0, s |-> <<>>]
Int64V(x)  == [t |-> "int64",  b |-> FALSE, i |-> x, s |-> <<>>]
Uint64V(x) == [t |-> "uint64", b |-> FALSE, i |-> x, s |-> <<>>]
StringV(x) == [t |-> "string", b |-> FALSE, i |-> 0, s |-> x]

-----------------------------------------------------------------------------
(* Expressions *)

\* The nil Expression (a nil interface).
NilExpr == [kind |-> "nil", name |-> <<>>, value |-> NilV, addr |-> "nil", kids |-> <<>>]

\* NewScalarExpr(literal, value), allocated at addr.
NewScalarExpr(literal, value, addr) ==
    [kind |-> "Scalar", name |-> literal, value |-> value, addr |-> addr, kids |-> <<>>]

\* The literal NewScalarExprV derives from the payload.
ScalarLiteralV(value) ==
    CASE value.t = "nil" -> sNull
      [] value.t = "bool" -> (IF value.b THEN sTrue ELSE sFalse)
      [] value.t = "string" -> <<"\"">> \o value.s \o <<"\"">>
      [] OTHER -> <<>>

NewScalarExprV(value, addr) == NewScalarExpr(ScalarLiteralV(value), value, addr)

NewNativeFunctionExpr(name, addr) ==
    [kind |-> "NativeFunction", name |-> name, value |-> NilV, addr |-> addr, kids |-> <<>>]

\* kids holds the scope.
NewScopedNativeFunctionExpr(name, scope, addr) ==
    [kind |-> "ScopedNativeFunction", name |-> name, value |-> NilV, addr |-> addr,
     kids |-> <<scope>>]

-----------------------------------------------------------------------------
(* Environment: the symbol table *)

eValue(expr, readOnly) == [expr |-> expr, readOnly |-> readOnly]

\* The Go map write m[name] = val.
MapPut(g, name, val) ==
    [n \in DOMAIN g \cup {name} |-> IF n = name THEN val ELSE g[n]]

\* The Go map delete.
MapDelete(g, name) == [n \in DOMAIN g \ {name} |-> g[n]]

\* Environment.Get: [expr, g, fatal].  depth counts the Go frames of the
\* Get -> Null -> Get recursion; past StackLimit the runtime aborts.
RECURSIVE Get(_, _, _, _)
Get(g, auto, name, depth) ==
    IF depth > StackLimit
      THEN [expr |-> NilExpr, g |-> g, fatal |-> TRUE]
    ELSE IF name \in DOMAIN g
      THEN [expr |-> g[name].expr, g |-> g, fatal |-> FALSE]
    ELSE LET null == Get(g, auto, sNull, depth + 1) IN
         IF null.fatal THEN null
         ELSE IF ~auto THEN null
         ELSE [expr  |-> null.expr,
               g     |-> MapPut(null.g, name, eValue(null.expr, FALSE)),
               fatal |-> FALSE]

\* Environment.Null / True / False / Empty.
Null(g, auto)  == Get(g, auto, sNull, 1)
True(g, auto)  == Get(g, auto, sTrue, 1)
False(g, auto) == Get(g, auto, sFalse, 1)
Empty(g, auto) == Get(g, auto, sEmpty, 1)

\* Environment.Set: [g, err].
Set(g, name, expr) ==
    LET val == IF name \in DOMAIN g THEN g[name] ELSE eValue(NilExpr, FALSE) IN
    IF val.readOnly
      THEN [g |-> g, err |-> TRUE]
      ELSE [g |-> MapPut(g, name, eValue(expr, val.readOnly)), err |-> FALSE]

\* Environment.Lock: [g, fatal].  The flag is assigned to the local copy
\* val of the map entry and the copy is never stored back.
Lock(g, auto, name, locked) ==
    IF name \in DOMAIN g
      THEN [g |-> g, fatal |-> FALSE]
      ELSE LET null == Null(g, auto) IN
           IF null.fatal
             THEN [g |-> g, fatal |-> TRUE]
             ELSE [g |-> MapPut(null.g, name, eValue(null.expr, FALSE)), fatal |-> FALSE]

\* Environment.Remove.
Remove(g, name) == MapDelete(g, name)

\* Environment.RegisterSymbol: [g, err].
RegisterSymbol(g, name, expr, immutable) ==
    IF name \in DOMAIN g
      THEN [g |-> g, err |-> TRUE]
      ELSE [g |-> MapPut(g, name, eValue(expr, immutable)), err |-> FALSE]

\* Environment.RegisterFunction.
RegisterFunction(g, name) == Set(g, name, NewNativeFunctionExpr(name, "native")).g

RegisterScopedFunction(g, name, scope) ==
    Set(g, name, NewScopedNativeFunctionExpr(name, scope, "native")).g

EmptyMap == [n \in {} |-> eValue(NilExpr, FALSE)]

\* Environment.registerBuiltIns, statement by statement.
registerBuiltIns ==
    LET g1 == Set(EmptyMap, sNull, NewScalarExprV(NilV, "null")).g
        g2 == Set(g1, sTrue, NewScalarExprV(BoolV(TRUE), "true")).g
        g3 == Set(g2, sFalse, NewScalarExprV(BoolV(FALSE), "false")).g
        g4 == Set(g3, sEmpty, NewScalarExpr(sEmpty, StringV(<<>>), "empty")).g
        g5 == Lock(g4, FALSE, sNull, TRUE).g
        g6 == Lock(g5, FALSE, sFalse, TRUE).g
        g7 == Lock(g6, FALSE, sTrue, TRUE).g
    IN  RegisterFunction(g7, sPrint)

\* NewEnvironment: the symbol table of a fresh environment.
NewEnvironment == registerBuiltIns

-----------------------------------------------------------------------------
(* Lexer.  Go byte offset p is position p + 1 of the text; the text is     *)
(* ASCII, so every rune has width 1.                                       *)

eof == "EOF"

chWHITE     == {" ", "\t", "\r", "\n"}
chDIGIT     == {"0", "1", "2", "3", "4", "5", "6", "7", "8", "9"}
chBinary    == {"0", "1"}
chOCTAL     == {"0", "1", "2", "3", "4", "5", "6", "7"}
chLOWER     == {"a", "b", "c", "d", "e", "f", "g", "h", "i", "j", "k", "l", "m",
                "n", "o", "p", "q", "r", "s", "t", "u", "v", "w", "x", "y", "z"}
chUPPER     == {"A", "B", "C", "D", "E", "F", "G", "H", "I", "J", "K", "L", "M",
                "N", "O", "P", "Q", "R", "S", "T", "U", "V", "W", "X", "Y", "Z"}
chHEXDIGIT  == chDIGIT \cup {"a", "b", "c", "d", "e", "f", "A", "B", "C", "D", "E", "F"}
chALPHA     == chLOWER \cup chUPPER
chIDENTSTART == chALPHA \cup {"_"}
chIDENTBODY == chIDENTSTART \cup chDIGIT

\* registerDoubleOps
doubleOps == {<<"=", "=">>, <<"!", "=">>, <<"<", "=">>, <<">", "=">>,
              <<"|", "|">>, <<"&", "&">>}

NewToken(type, literal, value, line, start) ==
    [Type |-> type, Literal |-> literal, Value |-> value, Line |-> line, Start |-> start]

\* Token{}: the zero value; its Type is 0, which is ErrorTok.
ZeroToken == NewToken("ErrorTok", <<>>, NilV, 0, 0)

\* newLexer: the lexer over text in; out collects what run sends on tokens.
newLexer(includeWS, in) ==
    [input |-> in, start |-> 0, pos |-> 0, width |-> 0, line |-> 0,
     includeWS |-> includeWS, out |-> <<>>, r |-> eof]

\* lexer.next: the lexer after the call, the rune read in field r.
next(l) ==
    IF l.pos >= Len(l.input)
      THEN [l EXCEPT !.width = 0, !.r = eof]
      ELSE LET c == l.input[l.pos + 1] IN
           [l EXCEPT !.width = 1, !.pos = l.pos + 1, !.r = c,
                     !.line = IF c = "\n" THEN l.line + 1 ELSE l.line]

\* lexer.backup
backup(l) ==
    LET p == l.pos - l.width IN
    [l EXCEPT !.pos = p,
              !.line = IF l.width = 1 /\ l.input[p + 1] = "\n"
                         THEN l.line - 1 ELSE l.line]

\* lexer.Current
Current(l) == SubSeq(l.input, l.start + 1, l.pos)

\* lexer.emit
emit(l, tok, send) ==
    [l EXCEPT !.out = IF send THEN Append(l.out, tok) ELSE l.out, !.start = l.pos]

\* lexer.eat
RECURSIVE eat(_, _)
eat(l, chars) ==
    LET n == next(l) IN
    IF n.r \in chars THEN eat(n, chars) ELSE backup(n)

\* lexer.accept: the lexer after the call, the answer in field ok.
accept(l, valid) ==
    LET n == next(l) IN
    IF n.r \in valid THEN [lx |-> n, ok |-> TRUE] ELSE [lx |-> backup(n), ok |-> FALSE]

\* The value of digit c in base 16.
DigitVal(c) ==
    CASE c = "0" -> 0 [] c = "1" -> 1 [] c = "2" -> 2 [] c = "3" -> 3 [] c = "4" -> 4
      [] c = "5" -> 5 [] c = "6" -> 6 [] c = "7" -> 7 [] c = "8" -> 8 [] c = "9" -> 9
      [] c \in {"a", "A"} -> 10 [] c \in {"b", "B"} -> 11 [] c \in {"c", "C"} -> 12
      [] c \in {"d", "D"} -> 13 [] c \in {"e", "E"} -> 14 [] c \in {"f", "F"} -> 15
      [] OTHER -> 99

\* strconv.ParseInt(s, base, 64) for an explicit base: no prefix, no
\* underscore; an empty text or a character that is no digit of the base is
\* an error.  (The range error needs 19 digits and more; the texts of the
\* model are shorter.)
RECURSIVE ParseDigits(_, _, _)
ParseDigits(s, base, acc) ==
    IF s = <<>> THEN [v |-> acc, err |-> FALSE]
    ELSE IF DigitVal(Head(s)) >= base THEN [v |-> 0, err |-> TRUE]
    ELSE ParseDigits(Tail(s), base, acc * base + DigitVal(Head(s)))

ParseInt(s, base) ==
    IF s = <<>> THEN [v |-> 0, err |-> TRUE] ELSE ParseDigits(s, base, 0)

\* The largest number of fraction digits of a float literal of the model.
FracDigits == 3

RECURSIVE Pow10(_)
Pow10(n) == IF n = 0 THEN 1 ELSE 10 * Pow10(n - 1)

\* The denominator of the fixed-point form of a float64.
FracUnit == Pow10(FracDigits)

\* A float64 payload, held as the number of 1/FracUnit it denotes.
Float64V(x) == [t |-> "float64", b |-> FALSE, i |-> x, s |-> <<>>]

\* strconv.ParseFloat(s, 64) on the texts scanNumber passes: digits, a dot
\* and at most FracDigits digits.  v is the value in 1/FracUnit.
ParseFloat(s) ==
    LET dots == {k \in 1..Len(s) : s[k] = "."}
        k    == CHOOSE d \in dots : TRUE
        ip   == ParseDigits(SubSeq(s, 1, k - 1), 10, 0)
        fs   == SubSeq(s, k + 1, Len(s))
        fp   == ParseDigits(fs, 10, 0)
    IN  IF Cardinality(dots) # 1 \/ Len(s) < 2 \/ Len(fs) > FracDigits \/ ip.err \/ fp.err
          THEN [v |-> 0, err |-> TRUE]
          ELSE [v |-> ip.v * FracUnit + fp.v * Pow10(FracDigits - Len(fs)), err |-> FALSE]

\* lexer.scanNumber: [lx, v (payload), err].
scanNumber(l) ==
    LET a0 == accept(l, {"0"})
        ax == accept(a0.lx, {"x", "X"})
        ao == accept(a0.lx, {"o", "O"})
        ab == accept(a0.lx, {"b", "B"})
        int(lx, base) ==
            LET p == ParseInt(Current(lx), base) IN
            [lx |-> lx, v |-> Int64V(p.v), err |-> p.err]
        rest(lx) ==
            LET ad == accept(lx, {"."}) IN
            IF ad.ok
              THEN LET e == eat(ad.lx, chDIGIT)
                       p == ParseFloat(Current(e)) IN
                   [lx |-> e, v |-> Float64V(p.v), err |-> p.err]
              ELSE int(ad.lx, 10)
    IN  IF a0.ok
          THEN IF ax.ok THEN int(eat(ax.lx, chHEXDIGIT), 16)
               ELSE IF ao.ok THEN int(eat(ao.lx, chOCTAL), 8)
               ELSE IF ab.ok THEN int(eat(ab.lx, chBinary), 2)
               ELSE rest(a0.lx)
          ELSE rest(a0.lx)

\* lexer.errorf: send an Error token; the nil state ends run.
errorf(l, msg) ==
    emit(l, NewToken("ErrorTok", <<"E", "R", "R", "O", "R">>, StringV(<<msg>>), l.line, l.start),
         TRUE)

\* The loop of lexQuoted: [lx, value, ok]; ok is FALSE when the string is
\* unterminated.
RECURSIVE quotedLoop(_, _, _)
quotedLoop(l, quote, value) ==
    LET n == next(l)
        c == n.r
    IN  IF c = "\\"
          THEN LET n2 == next(n) IN
               IF n2.r # eof /\ n2.r # "\n"
                 THEN quotedLoop(n2, quote, Append(value, c))
                 ELSE [lx |-> n2, value |-> value, ok |-> FALSE]
        ELSE IF c = eof \/ c = "\n"
          THEN [lx |-> n, value |-> value, ok |-> FALSE]
        ELSE IF c = quote
          THEN [lx |-> n, value |-> value, ok |-> TRUE]
        ELSE quotedLoop(n, quote, Append(value, c))

RECURSIVE lexInput(_)

\* lexSpace
lexSpace(l) ==
    LET e == eat(l, chWHITE) IN
    lexInput(emit(e, NewToken("WhitespaceTok", Current(e), NilV, e.line, e.start),
                  e.includeWS))

\* lexIdent
lexIdent(l) ==
    LET e == eat(l, chIDENTBODY) IN
    lexInput(emit(e, NewToken("IdentTok", Current(e), NilV, e.line, e.start), TRUE))

\* lexNumber
lexNumber(l) ==
    LET n == scanNumber(l) IN
    IF n.err
      THEN errorf(n.lx, "bad number syntax")
      ELSE lexInput(emit(n.lx, NewToken("NumberTok", Current(n.lx), n.v, n.lx.line, n.lx.start),
                         TRUE))

\* lexQuoted
lexQuoted(l) ==
    LET q == next(l)
        body == quotedLoop(q, q.r, <<>>)
    IN  IF ~body.ok
          THEN errorf(body.lx, "unterminated quoted string")
          ELSE lexInput(emit(body.lx,
                             NewToken("StringTok", Current(body.lx), StringV(body.value),
                                      body.lx.line, body.lx.start),
                             TRUE))

\* lexOperator
lexOperator(l) ==
    LET c  == next(l)
        c2 == next(c)
        two == <<c.r, c2.r>>
        tok(lit) == NewToken("OperatorTok", lit, NilV, l.line, l.start)
    IN  IF two \in doubleOps
          THEN lexInput(emit(c2, tok(two), TRUE))
          ELSE lexInput(emit(backup(c2), tok(<<c.r>>), TRUE))

\* lexInput: lexes the rest of the text; returns the lexer when the state
\* function chain ends with nil.
lexInput(l) ==
    LET n == next([l EXCEPT !.width = 0])
        r == n.r
    IN  IF r \in chWHITE THEN lexSpace(n)
        ELSE IF r \in chIDENTSTART THEN lexIdent(n)
        ELSE IF r \in chDIGIT THEN lexNumber(backup(n))
        ELSE IF r = "\"" \/ r = "'" THEN lexQuoted(backup(n))
        ELSE IF r = eof THEN emit(n, NewToken("EoFTok", <<>>, NilV, 0, 0), TRUE)
        ELSE lexOperator(backup(n))

\* lexer.run: everything the producer sends on the channel before it closes
\* the channel.
run(l) == lexInput(l).out

-----------------------------------------------------------------------------
(* The parser's view of the lexer: the pushback stack and the channel.     *)

\* A nil error.
NoErr == "nil"

\* The lexer handle Parse creates: the pushback tokenStack (top first) and
\* what the tokens channel will still deliver before it is closed.
\* A call of the token view as the parser made it: NextToken with what it
\* returned, or PushBack with the token given.
Call(op, tok, fini) == [op |-> op, tok |-> tok, fini |-> fini]

\* The token view of a lexer: stack is tokenStack, stream what the channel
\* tokens will deliver, calls the NextToken and PushBack calls made so far.
lex(includeWS, in) ==
    [stack |-> <<>>, stream |-> run(newLexer(includeWS, in)), calls |-> <<>>]

\* A push under the tokens already pushed.
pushUnder(stack, t) == stack \o <<t>>

\* tokenStack.push
push(stack, t) == <<t>> \o stack

\* The body of lexer.NextToken: [tok, fini, lx].
popOrReceive(lx) ==
    IF lx.stack # <<>>
      THEN [tok |-> Head(lx.stack), fini |-> FALSE, lx |-> [lx EXCEPT !.stack = Tail(lx.stack)]]
    ELSE IF lx.stream # <<>>
      THEN [tok |-> Head(lx.stream), fini |-> FALSE, lx |-> [lx EXCEPT !.stream = Tail(lx.stream)]]
    ELSE [tok |-> ZeroToken, fini |-> TRUE, lx |-> lx]

\* The call that returned n, added to the calls made.
noted(n) == [n EXCEPT !.lx.calls = Append(@, Call("NextToken", n.tok, n.fini))]

\* lexer.NextToken
NextToken(lx) == noted(popOrReceive(lx))

\* lexer.PushBack
PushBack(lx, t) ==
    [lx EXCEPT !.stack = push(lx.stack, t), !.calls = Append(@, Call("PushBack", t, FALSE))]

\* fini || t.Type == EoFTok
AtEnd(n) == n.fini \/ n.tok.Type = "EoFTok"

IsOp(t, lit) == t.Type = "OperatorTok" /\ t.Literal = lit

-----------------------------------------------------------------------------
(* Expression constructors *)

Node(kind, name, kids) ==
    [kind |-> kind, name |-> name, value |-> NilV, addr |-> "ast", kids |-> kids]

NewSymbolExpr(name) == Node("Symbol", name, <<>>)

\* scope is NilExpr for a nil scope.
NewSymbolExprWithScope(name, scope) ==
    Node("Symbol", name, IF scope = NilExpr THEN <<>> ELSE <<scope>>)

NewCondExpr(cond, left, right) == Node("Cond", <<>>, <<cond, left, right>>)
NewOrExpr(left, right) == Node("Or", <<>>, <<left, right>>)
NewAndExpr(left, right) == Node("And", <<>>, <<left, right>>)
NewCompareExpr(operand, left, right) == Node("Compare", operand, <<left, right>>)
NewConcatExpr(left, right) == Node("Concat", <<>>, <<left, right>>)
NewLikeExpr(left, right) == Node("Like", <<>>, <<left, right>>)
NewInExpr(left, right) == Node("In", <<>>, <<left, right>>)
NewListExpr == Node("List", <<>>, <<>>)

\* FuncCallExpr: kids = <<function>> \o args.
NewFuncCallExpr(function) == Node("FuncCall", <<>>, <<function>>)

\* ScopedFuncCallExpr: kids = <<scope>> \o args.
NewScopedFuncCallExpr(name, scope) == Node("ScopedFuncCall", name, <<scope>>)

\* AddArg / ListExpr.Append
AddArg(f, a) == [f EXCEPT !.kids = Append(f.kids, a)]

-----------------------------------------------------------------------------
(* Parser: every rule returns [expr, err, lx] *)

R(expr, err, lx) == [expr |-> expr, err |-> err, lx |-> lx]

LowerChar(c) ==
    CASE c = "A" -> "a" [] c = "B" -> "b" [] c = "C" -> "c" [] c = "D" -> "d"
      [] c = "E" -> "e" [] c = "F" -> "f" [] c = "G" -> "g" [] c = "H" -> "h"
      [] c = "I" -> "i" [] c = "J" -> "j" [] c = "K" -> "k" [] c = "L" -> "l"
      [] c = "M" -> "m" [] c = "N" -> "n" [] c = "O" -> "o" [] c = "P" -> "p"
      [] c = "Q" -> "q" [] c = "R" -> "r" [] c = "S" -> "s" [] c = "T" -> "t"
      [] c = "U" -> "u" [] c = "V" -> "v" [] c = "W" -> "w" [] c = "X" -> "x"
      [] c = "Y" -> "y" [] c = "Z" -> "z" [] OTHER -> c

\* strings.EqualFold on ASCII text.
EqualFold(a, b) ==
    /\ Len(a) = Len(b)
    /\ \A k \in 1..Len(a) : LowerChar(a[k]) = LowerChar(b[k])

\* expect: [tok, err, lx].  At the end of the input it reports no error.
expect(lx, tt, literal) ==
    LET n == NextToken(lx) IN
    IF AtEnd(n) THEN [tok |-> n.tok, err |-> NoErr, lx |-> n.lx]
    ELSE IF n.tok.Type # tt
      THEN [tok |-> n.tok, err |-> "unexpected TokenType", lx |-> n.lx]
    ELSE IF ~EqualFold(n.tok.Literal, literal)
      THEN [tok |-> n.tok, err |-> "unexpected literal value", lx |-> n.lx]
    ELSE [tok |-> n.tok, err |-> NoErr, lx |-> n.lx]

RECURSIVE parseExpr(_)

\* The argument loop of parseIdent and parseScopedIdent, entered with the
\* token t just read: [expr, err, lx, how].  how = "closed" when the loop
\* ended at ")", with expr the call; "error" when an argument failed, with
\* expr that argument; "end" when the input ended inside the list.
RECURSIVE argLoop(_, _, _, _)

\* The end of one round of the loop: the next token, and around again.
argStep(lx, f, expectArg) ==
    LET n == NextToken(lx) IN
    IF AtEnd(n)
      THEN [expr |-> f, err |-> NoErr, lx |-> n.lx, how |-> "end"]
      ELSE argLoop(n.lx, n.tok, f, expectArg)

\* A round that expected an argument, a being what parseExpr returned.
argArg(f, a) ==
    IF a.err # NoErr
      THEN [expr |-> a.expr, err |-> a.err, lx |-> a.lx, how |-> "error"]
      ELSE argStep(a.lx, AddArg(f, a.expr), FALSE)

argLoop(lx, t, f, expectArg) ==
    IF IsOp(t, <<")">>)
      THEN [expr |-> f, err |-> NoErr, lx |-> lx, how |-> "closed"]
    ELSE IF expectArg
      THEN argArg(f, parseExpr(PushBack(lx, t)))
    ELSE argStep(expect(PushBack(lx, t), "OperatorTok", <<",">>).lx, f, TRUE)

RECURSIVE parseScopedIdent(_, _, _)

\* parseScopedIdent after a ".": the identifier that must follow.
scopedDot(sym, lx) ==
    LET e == expect(lx, "IdentTok", <<>>) IN
    IF e.err # NoErr THEN R(sym, e.err, e.lx)
    ELSE parseScopedIdent(e.lx, e.tok, sym)

\* parseScopedIdent after the argument loop.
scopedArgs(sym, args) ==
    LET n3 == NextToken(args.lx) IN
    IF args.how = "error" THEN R(args.expr, args.err, args.lx)
    ELSE IF args.how = "end" THEN R(sym, NoErr, args.lx)
    ELSE IF AtEnd(n3) THEN R(sym, NoErr, n3.lx)
    ELSE IF IsOp(n3.tok, <<".">>) THEN scopedDot(sym, n3.lx)
    ELSE R(args.expr, NoErr, n3.lx)

\* parseScopedIdent
parseScopedIdent(lx, t, scope) ==
    LET sym == NewSymbolExprWithScope(t.Literal, scope)
        n   == NextToken(lx)
        f   == NewScopedFuncCallExpr(t.Literal, scope)
        n2  == NextToken(n.lx)
    IN  IF AtEnd(n) THEN R(sym, NoErr, n.lx)
        ELSE IF IsOp(n.tok, <<".">>) THEN scopedDot(sym, n.lx)
        ELSE IF ~IsOp(n.tok, <<"(">>) THEN R(sym, NoErr, PushBack(n.lx, n.tok))
        ELSE IF AtEnd(n2) THEN R(f, NoErr, n2.lx)
        ELSE scopedArgs(sym, argLoop(n2.lx, n2.tok, f, TRUE))

\* parseIdent after the argument loop.
identArgs(sym, args) ==
    IF args.how = "error" THEN R(args.expr, args.err, args.lx)
    ELSE IF args.how = "end" THEN R(sym, NoErr, args.lx)
    ELSE R(args.expr, NoErr, args.lx)

\* parseIdent
parseIdent(lx, t) ==
    LET sym == NewSymbolExpr(t.Literal)
        n   == NextToken(lx)
        f   == NewFuncCallExpr(sym)
        n2  == NextToken(n.lx)
    IN  IF AtEnd(n) THEN R(sym, NoErr, n.lx)
        ELSE IF IsOp(n.tok, <<".">>) THEN scopedDot(sym, n.lx)
        ELSE IF ~IsOp(n.tok, <<"(">>) THEN R(sym, NoErr, PushBack(n.lx, n.tok))
        ELSE IF AtEnd(n2) THEN R(f, NoErr, n2.lx)
        ELSE identArgs(sym, argLoop(n2.lx, n2.tok, f, TRUE))

\* The loop of parseArrayExpr, entered with the token t and fini just read.
RECURSIVE arrayLoop(_, _, _, _)

\* A round of the loop, lele being what parseExpr returned.
arrayElem(result, lele) ==
    LET n     == NextToken(lele.lx)
        n2    == NextToken(n.lx)
        comma == ~n.fini /\ IsOp(n.tok, <<",">>)
    IN  IF lele.err # NoErr THEN lele
        ELSE IF comma
          THEN arrayLoop(n2.lx, n2.tok, n2.fini, AddArg(result, lele.expr))
          ELSE arrayLoop(n.lx, n.tok, n.fini, AddArg(result, lele.expr))

arrayLoop(lx, t, fini, result) ==
    IF ~(t.Type # "EoFTok" \/ fini)
      THEN R(result, "list is un-terminated", lx)
    ELSE IF IsOp(t, <<"]">>)
      THEN R(result, NoErr, lx)
    ELSE arrayElem(result, parseExpr(PushBack(lx, t)))

\* parseArrayExpr
parseArrayExpr(lx) ==
    LET n == NextToken(lx) IN
    IF AtEnd(n) THEN R(NewListExpr, NoErr, n.lx)
    ELSE arrayLoop(n.lx, n.tok, n.fini, NewListExpr)

\* parseSubExpr
parseSubExpr(lx) == parseExpr(lx)

\* parseAtom after "(", sub being what parseSubExpr returned.
atomSub(sub) ==
    LET close == expect(sub.lx, "OperatorTok", <<")">>) IN
    IF sub.err # NoErr THEN sub
    ELSE R(sub.expr, close.err, close.lx)

\* parseAtom
parseAtom(lx) ==
    LET n == NextToken(lx)
        t == n.tok
    IN  IF AtEnd(n) THEN R(NewScalarExpr(<<>>, NilV, "ast"), NoErr, n.lx)
        ELSE IF t.Type \in {"NumberTok", "StringTok"}
          THEN R(NewScalarExpr(t.Literal, t.Value, "ast"), NoErr, n.lx)
        ELSE IF t.Type = "IdentTok" THEN parseIdent(n.lx, t)
        ELSE IF t.Type = "OperatorTok"
          THEN IF t.Literal = <<"(">> THEN atomSub(parseSubExpr(n.lx))
               ELSE IF t.Literal = <<"[">> THEN parseArrayExpr(n.lx)
               ELSE R(NilExpr, "unexpected operator when expecting expression term", n.lx)
        ELSE R(NilExpr, "unexpected token type when expecting expression term", n.lx)

RECURSIVE parseConcat(_)

\* parseConcat after "+", right being what the recursive call returned.
concatRight(left, right) ==
    IF right.err # NoErr THEN right
    ELSE R(NewConcatExpr(left.expr, right.expr), NoErr, right.lx)

\* parseConcat after its first operand.
concatLeft(left) ==
    LET n == NextToken(left.lx) IN
    IF left.err # NoErr THEN left
    ELSE IF AtEnd(n) THEN R(left.expr, NoErr, n.lx)
    ELSE IF IsOp(n.tok, <<"+">>) THEN concatRight(left, parseConcat(n.lx))
    ELSE R(left.expr, NoErr, PushBack(n.lx, n.tok))

\* parseConcat
parseConcat(lx) == concatLeft(parseAtom(lx))

\* compareOp
compareOp(operand) ==
    operand \in {<<"=", "=">>, <<"!", "=">>, <<">", "=">>, <<"<", "=">>}

\* parseCmp after a comparator, right being its second operand.
cmpRight(operand, left, right) ==
    IF right.err # NoErr THEN right
    ELSE R(NewCompareExpr(operand, left.expr, right.expr), NoErr, right.lx)

\* parseCmp after like (kind "Like") or in (kind "In").
wordRight(kind, left, right) ==
    IF right.err # NoErr THEN R(left.expr, right.err, right.lx)
    ELSE IF kind = "Like" THEN R(NewLikeExpr(left.expr, right.expr), NoErr, right.lx)
    ELSE R(NewInExpr(left.expr, right.expr), NoErr, right.lx)

\* parseCmp after its first operand.
cmpLeft(left) ==
    LET n == NextToken(left.lx)
        t == n.tok
    IN  IF left.err # NoErr THEN left
        ELSE IF AtEnd(n) THEN R(left.expr, NoErr, n.lx)
        ELSE IF t.Type = "OperatorTok"
          THEN IF compareOp(t.Literal)
                 THEN cmpRight(t.Literal, left, parseConcat(n.lx))
                 ELSE R(left.expr, NoErr, PushBack(n.lx, t))
        ELSE IF t.Type = "IdentTok" /\ t.Literal = <<"l", "i", "k", "e">>
          THEN wordRight("Like", left, parseConcat(n.lx))
        ELSE IF t.Type = "IdentTok" /\ t.Literal = <<"i", "n">>
          THEN wordRight("In", left, parseConcat(n.lx))
        ELSE R(left.expr, NoErr, PushBack(n.lx, t))

\* parseCmp
parseCmp(lx) == cmpLeft(parseConcat(lx))

RECURSIVE parseAnd(_)

\* parseAnd building an Or node.
andRightOr(expr, r) ==
    IF r.err # NoErr THEN r
    ELSE R(NewOrExpr(expr.expr, r.expr), NoErr, r.lx)

\* parseAnd after "&&", r being what the recursive call returned.
andRight(expr, r) ==
    IF r.err # NoErr THEN r
    ELSE R(NewAndExpr(expr.expr, r.expr), NoErr, r.lx)

\* parseAnd after its first operand.
andLeft(expr) ==
    LET n == NextToken(expr.lx) IN
    IF expr.err # NoErr THEN expr
    ELSE IF AtEnd(n) THEN R(expr.expr, NoErr, n.lx)
    ELSE IF IsOp(n.tok, <<"&", "&">>) THEN andRight(expr, parseAnd(n.lx))
    ELSE R(expr.expr, NoErr, PushBack(n.lx, n.tok))

\* parseAnd
parseAnd(lx) == andLeft(parseCmp(lx))

RECURSIVE parseOr(_)

\* parseOr after "||", r being what the recursive call returned.
orRight(expr, r) ==
    IF r.err # NoErr THEN r
    ELSE R(NewOrExpr(expr.expr, r.expr), NoErr, r.lx)

\* parseOr after its first operand.
orLeft(expr) ==
    LET n == NextToken(expr.lx) IN
    IF expr.err # NoErr THEN expr
    ELSE IF AtEnd(n) THEN R(expr.expr, NoErr, n.lx)
    ELSE IF IsOp(n.tok, <<"|", "|">>) THEN orRight(expr, parseOr(n.lx))
    ELSE R(expr.expr, NoErr, PushBack(n.lx, n.tok))

\* parseOr
parseOr(lx) == orLeft(parseAnd(lx))

\* parseCond after ":", right being the second branch.
condRight(expr, left, right) ==
    IF right.err # NoErr THEN R(expr.expr, right.err, right.lx)
    ELSE R(NewCondExpr(expr.expr, left.expr, right.expr), NoErr, right.lx)

\* parseCond after "?", left being the first branch.
condLeft(expr, left) ==
    LET colon == expect(left.lx, "OperatorTok", <<":">>) IN
    IF left.err # NoErr THEN R(expr.expr, left.err, left.lx)
    ELSE IF colon.err # NoErr
      THEN R(NewCondExpr(expr.expr, left.expr, NilExpr), colon.err, colon.lx)
    ELSE condRight(expr, left, parseExpr(colon.lx))

\* parseCond after its condition.
condCond(expr) ==
    LET n == NextToken(expr.lx) IN
    IF expr.err # NoErr THEN expr
    ELSE IF AtEnd(n) THEN R(expr.expr, NoErr, n.lx)
    ELSE IF IsOp(n.tok, <<"?">>) THEN condLeft(expr, parseExpr(n.lx))
    ELSE R(expr.expr, NoErr, PushBack(n.lx, n.tok))

\* parseCond
parseCond(lx) == condCond(parseOr(lx))

\* parseExpr
parseExpr(lx) == parseCond(lx)

\* Parser.Parse
Parse(input) == parseExpr(lex(FALSE, input))

-----------------------------------------------------------------------------
(* Evaluator.  The evaluation state st is [g, auto, stack, log, calls,     *)
(* fatal]: the symbol table, AutoregisterGlobals, the call stack exStack,  *)
(* the paths of the nodes whose Evaluate ran (in order), the native calls  *)
(* made with their arguments, and whether the process has died.  Every     *)
(* Evaluate returns [res, err, st].                                        *)

\* The error standing for a dead process (stack overflow, nil dereference).
Fatal == "fatal"

\* What a call returns; nothing but death once the process has died.
E(res, err, st) ==
    IF st.fatal THEN [res |-> NilExpr, err |-> Fatal, st |-> st]
    ELSE [res |-> res, err |-> err, st |-> st]

Die(st) == E(NilExpr, Fatal, [st EXCEPT !.fatal = TRUE])

NewEvalState(g, auto) ==
    [g |-> g, auto |-> auto, stack |-> <<>>, log |-> <<>>, calls |-> <<>>, fatal |-> FALSE]

\* env.Get(name) during an evaluation: [expr, st].
EnvGet(st, name) ==
    LET r == Get(st.g, st.auto, name, 1) IN
    [expr |-> r.expr, st |-> [st EXCEPT !.g = r.g, !.fatal = st.fatal \/ r.fatal]]

\* Decimal text of an integer (fmt %v).
RECURSIVE Itoa(_)
Itoa(n) ==
    LET d == <<"0", "1", "2", "3", "4", "5", "6", "7", "8", "9">> IN
    IF n < 0 THEN <<"-">> \o Itoa(0 - n)
    ELSE IF n < 10 THEN <<d[n + 1]>>
    ELSE Itoa(n \div 10) \o <<d[(n % 10) + 1]>>

\* The fraction digits of m/FracUnit (m < FracUnit), trailing zeros dropped.
RECURSIVE dropZeros(_)
dropZeros(t) ==
    IF t # <<>> /\ t[Len(t)] = "0" THEN dropZeros(SubSeq(t, 1, Len(t) - 1)) ELSE t

FracText(m) ==
    IF m = 0 THEN <<>> ELSE <<".">> \o dropZeros(Tail(Itoa(FracUnit + m)))

\* fmt.Sprintf("%v", payload) for a payload that is not nil.
FormatV(v) ==
    CASE v.t = "bool" -> (IF v.b THEN sTrue ELSE sFalse)
      [] v.t = "string" -> v.s
      [] v.t = "float64" -> Itoa(v.i \div FracUnit) \o FracText(v.i % FracUnit)
      [] OTHER -> Itoa(v.i)

\* e.Value() == nil
ValueIsNil(e) == e.kind = "Scalar" /\ e.value.t = "nil"

\* e.String()
String(e) ==
    IF e.kind = "Scalar"
      THEN IF e.value.t = "nil" THEN sNULL ELSE FormatV(e.value)
      ELSE <<"*expr.", e.kind>>

\* fmt.Sprintf("%v", e.Value())
ValueStr(e) ==
    IF e.kind = "Scalar"
      THEN IF e.value.t = "nil" THEN <<"<", "n", "i", "l", ">">> ELSE FormatV(e.value)
      ELSE <<"[:*expr.", e.kind, ":]">>

\* e.Literal()
RECURSIVE Literal(_)
Literal(e) ==
    CASE e.kind = "Symbol" ->
           (IF e.kids = <<>> THEN e.name ELSE Literal(e.kids[1]) \o <<".">> \o e.name)
      [] e.kind = "ScopedFuncCall" ->
           (IF e.kids[1].kind = "Symbol"
              THEN <<"#ScopeFunc:">> \o Literal(e.kids[1]) \o <<".">> \o e.name
              ELSE Literal(e.kids[1]) \o <<".">> \o e.name)
      [] e.kind = "Scalar" -> e.name
      [] OTHER -> <<"(", e.kind, ")">>

\* c.Value() == env.False(): an interface{} payload against an Expression;
\* equal only when the payload is that very pointer, and the one Value()
\* that returns a pointer is ListExpr's (itself).
ValueIsExpr(c, x) == c.kind = "List" /\ c = x

\* The test c == nil || c == env.False() || c.Value() == nil ||
\* c.Value() == env.False(), left to right: [b, st].
Falsy(c, st) ==
    LET f == EnvGet(st, sFalse) IN
    IF c = NilExpr THEN [b |-> TRUE, st |-> st]
    ELSE [b |-> c = f.expr \/ ValueIsNil(c) \/ ValueIsExpr(c, f.expr), st |-> f.st]

\* The six operators on two bools (false orders below true).
CompareBool(operand, vl, vr) ==
    CASE operand = <<"=", "=">> -> [b |-> vl = vr, err |-> NoErr]
      [] operand = <<"!", "=">> -> [b |-> vl # vr, err |-> NoErr]
      [] operand = <<">", "=">> -> [b |-> IF vl # vr THEN vl ELSE TRUE, err |-> NoErr]
      [] operand = <<">">>      -> [b |-> IF vl # vr THEN vl ELSE FALSE, err |-> NoErr]
      [] operand = <<"<", "=">> -> [b |-> IF vl # vr THEN ~vl ELSE TRUE, err |-> NoErr]
      [] operand = <<"<">>      -> [b |-> IF vl # vr THEN ~vl ELSE FALSE, err |-> NoErr]
      [] OTHER -> [b |-> FALSE, err |-> "Operand not supported"]

\* CompareNum with > answering as >= does.
CompareNumLoose(operand, vl, vr) ==
    CASE operand = <<"=", "=">> -> [b |-> vl = vr, err |-> NoErr]
      [] operand = <<"!", "=">> -> [b |-> vl # vr, err |-> NoErr]
      [] operand = <<">", "=">> -> [b |-> vl >= vr, err |-> NoErr]
      [] operand = <<">">>      -> [b |-> vl >= vr, err |-> NoErr]
      [] operand = <<"<", "=">> -> [b |-> vl <= vr, err |-> NoErr]
      [] operand = <<"<">>      -> [b |-> vl < vr, err |-> NoErr]
      [] OTHER -> [b |-> FALSE, err |-> "Operand not supported"]

\* The six operators on two numbers of one type.
CompareNum(operand, vl, vr) ==
    CASE operand = <<"=", "=">> -> [b |-> vl = vr, err |-> NoErr]
      [] operand = <<"!", "=">> -> [b |-> vl # vr, err |-> NoErr]
      [] operand = <<">", "=">> -> [b |-> vl >= vr, err |-> NoErr]
      [] operand = <<">">>      -> [b |-> vl > vr, err |-> NoErr]
      [] operand = <<"<", "=">> -> [b |-> vl <= vr, err |-> NoErr]
      [] operand = <<"<">>      -> [b |-> vl < vr, err |-> NoErr]
      [] OTHER -> [b |-> FALSE, err |-> "Operand not supported"]

NumTypes == {"int", "uint", "int64", "uint64", "float32", "float64"}

\* compare without the test of the left operand for nil.
compareRightNilOnly(st, operand, l, r) ==
    LET t    == EnvGet(st, sTrue)
        f    == EnvGet(st, sFalse)
        c    == IF l.value.t = "bool"
                  THEN CompareBool(operand, l.value.b, r.value.b)
                  ELSE CompareNum(operand, l.value.i, r.value.i)
    IN  IF r.value.t = "nil" THEN E(f.expr, NoErr, f.st)
        ELSE IF l.value.t \in NumTypes \cup {"bool"}
          THEN IF l.value.t = r.value.t
                 THEN IF c.b THEN E(t.expr, c.err, t.st) ELSE E(f.expr, c.err, f.st)
                 ELSE E(f.expr, NoErr, f.st)
        ELSE E(f.expr, "Scalar datatype not supported", f.st)

\* compare applying the operator whatever the type of the right operand.
compareAcrossTypes(st, operand, l, r) ==
    LET null == EnvGet(st, sNull)
        t    == EnvGet(st, sTrue)
        f    == EnvGet(st, sFalse)
        c    == IF l.value.t = "bool"
                  THEN CompareBool(operand, l.value.b, r.value.b)
                  ELSE CompareNum(operand, l.value.i, r.value.i)
    IN  IF r.value.t = "nil" THEN E(f.expr, NoErr, f.st)
        ELSE IF null.st.fatal THEN Die(st)
        ELSE IF l.value.t = "nil" THEN E(f.expr, NoErr, f.st)
        ELSE IF l.value.t \in NumTypes \cup {"bool"}
          THEN IF c.b THEN E(t.expr, c.err, t.st) ELSE E(f.expr, c.err, f.st)
        ELSE E(f.expr, "Scalar datatype not supported", f.st)

\* compare(env, operand, l, r): [res, err, st].
compare(st, operand, l, r) ==
    LET null == EnvGet(st, sNull)
        t    == EnvGet(st, sTrue)
        f    == EnvGet(st, sFalse)
        c    == IF l.value.t = "bool"
                  THEN CompareBool(operand, l.value.b, r.value.b)
                  ELSE CompareNum(operand, l.value.i, r.value.i)
    IN  IF r.value.t = "nil" THEN E(f.expr, NoErr, f.st)
        ELSE IF null.st.fatal THEN Die(st)
        ELSE IF l.value.t = "nil" THEN E(f.expr, NoErr, f.st)
        ELSE IF l.value.t \in NumTypes \cup {"bool"}
          THEN IF l.value.t = r.value.t
                 THEN IF c.b THEN E(t.expr, c.err, t.st) ELSE E(f.expr, c.err, f.st)
                 ELSE E(f.expr, NoErr, f.st)
        ELSE E(f.expr, "Scalar datatype not supported", f.st)

\* Match / MatchI: the wildcard match of like.  ti and pi are Go indexes.
RECURSIVE MatchI(_, _, _, _)
RECURSIVE starScan(_, _, _, _)

\* for ti < tl && !MatchI(txt, ti, pattern, pi) { ti++ }; return ti < tl
starScan(txt, ti, pattern, pi) ==
    IF ti < Len(txt) /\ ~MatchI(txt, ti, pattern, pi)
      THEN starScan(txt, ti + 1, pattern, pi)
      ELSE ti < Len(txt)

MatchI(txt, ti, pattern, pi) ==
    LET tl == Len(txt)
        pl == Len(pattern)
        r  == LowerChar(pattern[pi + 1])
    IN  IF ti < tl /\ pi < pl
          THEN IF r = "*"
                 THEN IF pi + 1 = pl THEN TRUE ELSE starScan(txt, ti, pattern, pi + 1)
               ELSE IF r = "?" THEN MatchI(txt, ti + 1, pattern, pi + 1)
               ELSE IF r # LowerChar(txt[ti + 1]) THEN FALSE
               ELSE MatchI(txt, ti + 1, pattern, pi + 1)
          ELSE ti = tl /\ (pi = pl \/ (pi = pl - 1 /\ pattern[pi + 1] = "*"))

Match(txt, pattern) == MatchI(txt, 0, pattern, 0)

\* The built-in native function print (builtins.go).
builtinPrint(st, args) ==
    LET null == EnvGet(st, sNull) IN E(null.expr, NoErr, null.st)

\* The host callback Multiply of the README and cmd/main.go.
Multiply(st, args) ==
    LET null == EnvGet(st, sNull)
        f    == EnvGet(st, sFalse)
        l    == args[1]
        r    == args[2]
    IN  IF Len(args) # 2
          THEN E(null.expr, "Multiply must have two int arguments", null.st)
        ELSE IF l.kind = "nil" THEN Die(st)
        ELSE IF l.kind = "Scalar" /\ l.value.t = "int64"
          THEN IF r.kind = "nil" THEN Die(st)
               ELSE IF r.kind = "Scalar" /\ r.value.t = "int64"
                 THEN E(NewScalarExpr(<<>>, Int64V(l.value.i * r.value.i), "tmp"), NoErr, st)
               ELSE E(null.expr, "Multiply must have two int arguments", null.st)
        ELSE E(f.expr, "scalar datatype not supported", f.st)

\* NativeFunctionExpr.Invoke / ScopedNativeFunctionExpr.Invoke: runs the
\* callback the function was registered with: Multiply under its own name,
\* Print under every other. calls keeps, for each call, what the callback
\* was handed and the call stack it ran under.
Invoke(fun, st, args) ==
    LET st1 == [st EXCEPT !.calls =
                   Append(st.calls, [name |-> fun.name, args |-> args, stack |-> st.stack])] IN
    IF fun.name = sMultiply THEN Multiply(st1, args) ELSE builtinPrint(st1, args)

\* exStack.push / exStack.pop
pushStack(st, frm) == [st EXCEPT !.stack = Append(st.stack, frm)]
popStack(st) ==
    IF st.stack = <<>> THEN st ELSE [st EXCEPT !.stack = SubSeq(st.stack, 1, Len(st.stack) - 1)]

exFrame(function, args) == [function |-> function, args |-> args]

\* make([]Expression, n): n nil entries.
MakeArgs(n) == [k \in 1..n |-> NilExpr]

IsFunction(f) == f.kind \in {"NativeFunction", "ScopedNativeFunction"}

RECURSIVE Evaluate(_, _, _)

\* Evaluates kids[from..] of e in order: [vals, res, err, st]; stops at the
\* first error, res being what that evaluation returned.
RECURSIVE evalKids(_, _, _, _, _)
evalKids(e, from, st, path, vals) ==
    IF from > Len(e.kids)
      THEN [vals |-> vals, res |-> NilExpr, err |-> NoErr, st |-> st]
      ELSE LET a == Evaluate(e.kids[from], st, Append(path, from)) IN
           IF a.err # NoErr
             THEN [vals |-> vals, res |-> a.res, err |-> a.err, st |-> a.st]
             ELSE evalKids(e, from + 1, a.st, path, Append(vals, a.res))

\* CondExpr.Evaluate
CondEvaluate(e, st, path) ==
    LET c == Evaluate(e.kids[1], st, Append(path, 1))
        f == Falsy(c.res, c.st)
    IN  IF c.err # NoErr THEN c
        ELSE IF f.st.fatal THEN Die(f.st)
        ELSE IF f.b THEN Evaluate(e.kids[2], f.st, Append(path, 2))
        ELSE Evaluate(e.kids[3], f.st, Append(path, 3))

\* OrExpr.Evaluate
OrEvaluate(e, st, path) ==
    LET c  == Evaluate(e.kids[1], st, Append(path, 1))
        f  == Falsy(c.res, c.st)
        c2 == Evaluate(e.kids[2], f.st, Append(path, 2))
        f2 == Falsy(c2.res, c2.st)
        t  == EnvGet(f.st, sTrue)
        t2 == EnvGet(f2.st, sTrue)
        r2 == EnvGet(f2.st, sFalse)
    IN  IF c.err # NoErr THEN c
        ELSE IF ~f.b THEN E(t.expr, NoErr, t.st)
        ELSE IF c2.err # NoErr THEN c2
        ELSE IF ~f2.b THEN E(t2.expr, NoErr, t2.st)
        ELSE E(r2.expr, NoErr, r2.st)

\* An AndExpr that answers as an OrExpr does.
AndAsOr(e, st, path) == OrEvaluate(e, st, path)

\* AndExpr.Evaluate
AndEvaluate(e, st, path) ==
    LET c  == Evaluate(e.kids[1], st, Append(path, 1))
        f  == Falsy(c.res, c.st)
        c2 == Evaluate(e.kids[2], f.st, Append(path, 2))
        f2 == Falsy(c2.res, c2.st)
        r  == EnvGet(f.st, sFalse)
        r2 == EnvGet(f2.st, sFalse)
        t2 == EnvGet(f2.st, sTrue)
    IN  IF c.err # NoErr THEN c
        ELSE IF f.b THEN E(r.expr, NoErr, r.st)
        ELSE IF c2.err # NoErr THEN c2
        ELSE IF f2.b THEN E(r2.expr, NoErr, r2.st)
        ELSE E(t2.expr, NoErr, t2.st)

\* CompareExpr.Evaluate
CompareEvaluate(e, st, path) ==
    LET l == Evaluate(e.kids[1], st, Append(path, 1))
        r == Evaluate(e.kids[2], l.st, Append(path, 2))
    IN  IF l.err # NoErr THEN l
        ELSE IF r.err # NoErr THEN r
        ELSE IF l.res.kind = "Scalar" /\ r.res.kind = "Scalar"
          THEN compare(r.st, e.name, l.res, r.res)
        ELSE E(NilExpr, "equality-operator is only supported on Scalar values", r.st)

\* A ConCatExpr that joins right before left.
ConCatSwapped(e, st, path) ==
    LET l == Evaluate(e.kids[1], st, Append(path, 1))
        r == Evaluate(e.kids[2], l.st, Append(path, 2))
    IN  IF l.err # NoErr THEN l
        ELSE IF r.err # NoErr THEN r
        ELSE E(NewScalarExpr(<<>>, StringV(String(r.res) \o String(l.res)), "tmp"), NoErr, r.st)

\* ConCatExpr.Evaluate
ConCatEvaluate(e, st, path) ==
    LET l == Evaluate(e.kids[1], st, Append(path, 1))
        r == Evaluate(e.kids[2], l.st, Append(path, 2))
        new(x) == E(NewScalarExpr(<<>>, StringV(x), "tmp"), NoErr, r.st)
    IN  IF l.err # NoErr THEN l
        ELSE IF r.err # NoErr THEN r
        ELSE IF l.res = NilExpr \/ ValueIsNil(l.res)
          THEN IF r.res = NilExpr \/ ValueIsNil(r.res)
                 THEN new(<<>>)
                 ELSE new(String(r.res))
        ELSE IF r.res = NilExpr THEN Die(r.st)
        ELSE IF ValueIsNil(r.res) THEN new(String(r.res))
        ELSE new(String(l.res) \o String(r.res))

\* ListExpr.Evaluate
ListEvaluate(e, st, path) ==
    LET k == evalKids(e, 1, st, path, <<>>) IN
    IF k.err # NoErr THEN E(k.res, k.err, k.st)
    ELSE E([kind |-> "List", name |-> <<>>, value |-> NilV, addr |-> "tmp", kids |-> k.vals],
           NoErr, k.st)

\* An InExpr that looks at the first element only.
InFirstOnly(e, st, path) ==
    LET val  == Evaluate(e.kids[1], st, Append(path, 1))
        list == Evaluate(e.kids[2], val.st, Append(path, 2))
        hit  == /\ list.res.kids # <<>>
                /\ ValueStr(val.res) = ValueStr(list.res.kids[1])
        t    == EnvGet(list.st, sTrue)
        f    == EnvGet(list.st, sFalse)
    IN  IF val.err # NoErr THEN val
        ELSE IF list.err # NoErr THEN list
        ELSE IF list.res.kind # "List" THEN E(list.res, "not a list for matching values", list.st)
        ELSE IF hit THEN E(t.expr, NoErr, t.st)
        ELSE E(f.expr, NoErr, f.st)

\* InExpr.Evaluate
InEvaluate(e, st, path) ==
    LET val  == Evaluate(e.kids[1], st, Append(path, 1))
        list == Evaluate(e.kids[2], val.st, Append(path, 2))
        hit  == \E k \in 1..Len(list.res.kids) :
                    ValueStr(val.res) = ValueStr(list.res.kids[k])
        t    == EnvGet(list.st, sTrue)
        f    == EnvGet(list.st, sFalse)
    IN  IF val.err # NoErr THEN val
        ELSE IF list.err # NoErr THEN list
        ELSE IF list.res.kind # "List" THEN E(list.res, "not a list for matching values", list.st)
        ELSE IF hit THEN E(t.expr, NoErr, t.st)
        ELSE E(f.expr, NoErr, f.st)

\* LikeExpr.Evaluate
LikeEvaluate(e, st, path) ==
    LET l == Evaluate(e.kids[1], st, Append(path, 1))
        r == Evaluate(e.kids[2], l.st, Append(path, 2))
        t == EnvGet(r.st, sTrue)
        f == EnvGet(r.st, sFalse)
    IN  IF l.err # NoErr THEN l
        ELSE IF r.err # NoErr THEN r
        ELSE IF Match(ValueStr(l.res), ValueStr(r.res)) THEN E(t.expr, NoErr, t.st)
        ELSE E(f.expr, NoErr, f.st)

\* FuncCallExpr.Evaluate leaving its frame on the stack when the callback
\* returns an error.
FuncCallPopOnSuccess(e, st, path) ==
    LET n    == Len(e.kids) - 1
        f    == Evaluate(e.kids[1], st, Append(path, 1))
        k    == evalKids(e, 2, f.st, path, MakeArgs(n))
        st1  == pushStack(k.st, exFrame(f.res, SubSeq(e.kids, 2, Len(e.kids))))
        r    == Invoke(f.res, st1, k.vals)
    IN  IF f.err # NoErr THEN f
        ELSE IF ~IsFunction(f.res) THEN E(f.res, "not a function", f.st)
        ELSE IF k.err # NoErr THEN E(k.res, k.err, k.st)
        ELSE E(r.res, r.err, IF r.err = NoErr THEN popStack(r.st) ELSE r.st)

\* FuncCallExpr.Evaluate pushing its frame before the arguments are
\* evaluated and returning at once when one of them fails.
FuncCallPushEarly(e, st, path) ==
    LET n    == Len(e.kids) - 1
        f    == Evaluate(e.kids[1], st, Append(path, 1))
        st0  == pushStack(f.st, exFrame(f.res, SubSeq(e.kids, 2, Len(e.kids))))
        k    == evalKids(e, 2, st0, path, MakeArgs(n))
        r    == Invoke(f.res, k.st, k.vals)
    IN  IF f.err # NoErr THEN f
        ELSE IF ~IsFunction(f.res) THEN E(f.res, "not a function", f.st)
        ELSE IF k.err # NoErr THEN E(k.res, k.err, k.st)
        ELSE E(r.res, r.err, popStack(r.st))

\* FuncCallExpr.Evaluate: kids[1] is the function, the rest the arguments.
FuncCallEvaluate(e, st, path) ==
    LET n    == Len(e.kids) - 1
        f    == Evaluate(e.kids[1], st, Append(path, 1))
        k    == evalKids(e, 2, f.st, path, MakeArgs(n))
        st1  == pushStack(k.st, exFrame(f.res, SubSeq(e.kids, 2, Len(e.kids))))
        r    == Invoke(f.res, st1, k.vals)
    IN  IF f.err # NoErr THEN f
        ELSE IF ~IsFunction(f.res) THEN E(f.res, "not a function", f.st)
        ELSE IF k.err # NoErr THEN E(k.res, k.err, k.st)
        ELSE E(r.res, r.err, popStack(r.st))

\* ScopedFuncCallExpr.Evaluate: kids[1] is the scope, the rest the arguments.
ScopedFuncCallEvaluate(e, st, path) ==
    LET n    == Len(e.kids) - 1
        got  == EnvGet(st, Literal(e))
        f    == Evaluate(got.expr, got.st, Append(path, 0))
        sc   == Evaluate(e.kids[1], f.st, Append(path, 1))
        k    == evalKids(e, 2, sc.st, path, Append(MakeArgs(n), sc.res))
        st1  == pushStack(k.st, exFrame(f.res, SubSeq(e.kids, 2, Len(e.kids))))
        r    == Invoke(f.res, st1, k.vals)
    IN  IF got.st.fatal THEN Die(got.st)
        ELSE IF f.err # NoErr THEN f
        ELSE IF f.res.kind # "ScopedNativeFunction" THEN E(f.res, "not a function", f.st)
        ELSE IF sc.err # NoErr THEN E(f.res, sc.err, sc.st)
        ELSE IF k.err # NoErr THEN E(k.res, k.err, k.st)
        ELSE E(r.res, r.err, popStack(r.st))

\* SymbolExpr.Evaluate
SymbolEvaluate(e, st) ==
    LET got == EnvGet(st, Literal(e)) IN E(got.expr, NoErr, got.st)

\* Expression.Evaluate, dispatched on the dynamic type; path is the place
\* of e in the tree being evaluated, logged when its Evaluate is entered.
Evaluate(e, st, path) ==
    LET st1 == [st EXCEPT !.log = Append(st.log, path)] IN
    CASE e.kind = "nil"            -> Die(st)
      [] e.kind = "Scalar"         -> E(e, NoErr, st1)
      [] e.kind = "Symbol"         -> SymbolEvaluate(e, st1)
      [] e.kind = "Cond"           -> CondEvaluate(e, st1, path)
      [] e.kind = "Or"             -> OrEvaluate(e, st1, path)
      [] e.kind = "And"            -> AndEvaluate(e, st1, path)
      [] e.kind = "Compare"        -> CompareEvaluate(e, st1, path)
      [] e.kind = "Concat"         -> ConCatEvaluate(e, st1, path)
      [] e.kind = "List"           -> ListEvaluate(e, st1, path)
      [] e.kind = "In"             -> InEvaluate(e, st1, path)
      [] e.kind = "Like"           -> LikeEvaluate(e, st1, path)
      [] e.kind = "FuncCall"       -> FuncCallEvaluate(e, st1, path)
      [] e.kind = "ScopedFuncCall" -> ScopedFuncCallEvaluate(e, st1, path)
      [] OTHER                     -> E(e, NoErr, st1)

-----------------------------------------------------------------------------
(* The environment as a state machine: a host calling the Environment API *)

sX == <<"x">>

\* The names the host passes to the Environment.
EnvNames == {sNull, sTrue, sX}

\* The expressions the host stores.
HostExprs == {NewScalarExprV(BoolV(TRUE), "host"), NewScalarExprV(NilV, "host")}

OpRecord(op, name, locked, err, res) ==
    [op |-> op, name |-> name, locked |-> locked, err |-> err, res |-> res]

\* The expression stored under name, NilExpr when there is none.
StoredExpr(g, name) == IF name \in DOMAIN g THEN g[name].expr ELSE NilExpr

\* A job: kind names the family of inputs, text is the source text (empty
\* for a tree the host builds itself), tree that tree, want the payload the
\* input denotes, note what else the family records about it.
Job(kind, text, t, want, note) ==
    [kind |-> kind, text |-> text, tree |-> t, want |-> want, note |-> note]

NoJob == Job("none", <<>>, NilExpr, NilV, "")

\* What an evaluation left behind: the returned pair, the places of the
\* tree whose Evaluate ran, in order, and the native calls made.
Outcome(res, err, log, calls, stack) ==
    [res |-> res, err |-> err, log |-> log, calls |-> calls, stack |-> stack]

NoResult == Outcome(NilExpr, NoErr, <<>>, <<>>, <<>>)

\* The channel tokens and the goroutine run: todo is what run has still to
\* send, sent what was received from it, closed whether close(l.tokens) was
\* executed and closes how often.
Channel(todo) == [todo |-> todo, sent |-> <<>>, closed |-> FALSE, closes |-> 0]

NoChannel == Channel(<<>>)

\* The caller of the token view: the parser, whose calls are script, or a
\* free caller; calls are the calls made so far with what they returned,
\* waiting whether it is blocked in the receive of NextToken.
Client(mode, input, script) ==
    [mode |-> mode, input |-> input, script |-> script, tokenStack |-> <<>>,
     calls |-> <<>>, waiting |-> FALSE]

NoClient == Client("none", <<>>, <<>>)

EnvInit ==
    /\ globalFuncs = NewEnvironment
    /\ AutoregisterGlobals = FALSE
    /\ fatal = FALSE
    /\ lockReq = [n \in EnvNames |-> n \in {sNull, sTrue, sFalse}]
    /\ lastOp = OpRecord("NewEnvironment", <<>>, FALSE, FALSE, NilExpr)
    /\ pc = "env"
    /\ job = NoJob
    /\ tree = NilExpr
    /\ perr = NoErr
    /\ outcome = NoResult
    /\ tokens = NoChannel
    /\ client = NoClient

\* env.Set(name, expr)
CallSet(name, expr) ==
    /\ ~fatal
    /\ LET r == Set(globalFuncs, name, expr) IN
       /\ globalFuncs' = r.g
       /\ lastOp' = OpRecord("Set", name, FALSE, r.err, expr)
    /\ UNCHANGED <<AutoregisterGlobals, fatal, lockReq, evalVars, lexVars>>

\* env.Get(name)
CallGet(name) ==
    /\ ~fatal
    /\ LET r == Get(globalFuncs, AutoregisterGlobals, name, 1) IN
       /\ globalFuncs' = r.g
       /\ fatal' = r.fatal
       /\ lastOp' = OpRecord("Get", name, FALSE, FALSE, r.expr)
    /\ UNCHANGED <<AutoregisterGlobals, lockReq, evalVars, lexVars>>

\* env.Lock(name, locked)
CallLock(name, locked) ==
    /\ ~fatal
    /\ LET r == Lock(globalFuncs, AutoregisterGlobals, name, locked) IN
       /\ globalFuncs' = r.g
       /\ fatal' = r.fatal
    /\ lockReq' = [lockReq EXCEPT ![name] = locked]
    /\ lastOp' = OpRecord("Lock", name, locked, FALSE, NilExpr)
    /\ UNCHANGED <<AutoregisterGlobals, evalVars, lexVars>>

\* env.Remove(name)
CallRemove(name) ==
    /\ ~fatal
    /\ globalFuncs' = Remove(globalFuncs, name)
    /\ lastOp' = OpRecord("Remove", name, FALSE, FALSE, NilExpr)
    /\ UNCHANGED <<AutoregisterGlobals, fatal, lockReq, evalVars, lexVars>>

\* env.RegisterSymbol(symbol, expr, immutable)
CallRegisterSymbol(name, expr, immutable) ==
    /\ ~fatal
    /\ LET r == RegisterSymbol(globalFuncs, name, expr, immutable) IN
       /\ globalFuncs' = r.g
       /\ lastOp' = OpRecord("RegisterSymbol", name, immutable, r.err, expr)
    /\ UNCHANGED <<AutoregisterGlobals, fatal, lockReq, evalVars, lexVars>>

\* env.AutoregisterGlobals = b (an exported field the host assigns)
SetAutoregister(b) ==
    /\ ~fatal
    /\ AutoregisterGlobals' = b
    /\ lastOp' = OpRecord("Autoregister", <<>>, b, FALSE, NilExpr)
    /\ UNCHANGED <<globalFuncs, fatal, lockReq, evalVars, lexVars>>

EnvNext ==
    \/ \E n \in EnvNames, x \in HostExprs : CallSet(n, x)
    \/ \E n \in EnvNames : CallGet(n)
    \/ \E n \in EnvNames, b \in BOOLEAN : CallLock(n, b)
    \/ \E n \in EnvNames : CallRemove(n)
    \/ \E n \in EnvNames, x \in HostExprs, b \in BOOLEAN : CallRegisterSymbol(n, x, b)
    \/ \E b \in BOOLEAN : SetAutoregister(b)

Spec == EnvInit /\ [][EnvNext]_vars

-----------------------------------------------------------------------------
(* Claims about the environment *)

\* C1: once Lock(n, true) has been called (the bootstrap locks true, false
\* and null) and until Lock(n, false), every Set(n, x) returns an error and
\* leaves the expression stored under n unchanged.
C1_LockedSetFails ==
    [][(lastOp'.op = "Set" /\ lockReq[lastOp'.name])
          => (lastOp'.err
              /\ StoredExpr(globalFuncs', lastOp'.name)
                   = StoredExpr(globalFuncs, lastOp'.name))]_vars

\* C2: right after NewEnvironment the table holds null, true, false, empty
\* and print with the documented payloads, and all of them but print are
\* read-only.
C2_BootstrapReadOnly ==
    lastOp.op = "NewEnvironment" =>
        /\ {sNull, sTrue, sFalse, sEmpty, sPrint} \subseteq DOMAIN globalFuncs
        /\ globalFuncs[sNull].expr.value = NilV
        /\ globalFuncs[sTrue].expr.value = BoolV(TRUE)
        /\ globalFuncs[sFalse].expr.value = BoolV(FALSE)
        /\ globalFuncs[sEmpty].expr.value = StringV(<<>>)
        /\ globalFuncs[sPrint].expr.kind = "NativeFunction"
        /\ \A n \in {sNull, sTrue, sFalse, sEmpty} : globalFuncs[n].readOnly
        /\ ~globalFuncs[sPrint].readOnly

\* C3: Get of an absent name returns what Get("null") returns; with
\* AutoregisterGlobals off the table is unchanged, with it on the lookup
\* stores (name -> Null, not read-only), which later Get(name) calls return.
C3_GetAbsent ==
    [][(lastOp'.op = "Get" /\ lastOp'.name \notin DOMAIN globalFuncs)
          => /\ ~fatal'
             /\ sNull \in DOMAIN globalFuncs
             /\ lastOp'.res = globalFuncs[sNull].expr
             /\ ~AutoregisterGlobals => globalFuncs' = globalFuncs
             /\ AutoregisterGlobals =>
                  /\ globalFuncs' = MapPut(globalFuncs, lastOp'.name,
                                           eValue(globalFuncs[sNull].expr, FALSE))
                  /\ Get(globalFuncs', AutoregisterGlobals, lastOp'.name, 1).expr
                       = lastOp'.res]_vars

\* C29: in every state of the environment that calls of Set, Lock, Remove,
\* RegisterSymbol and Get lead to, with AutoregisterGlobals on or off and
\* also after Remove("null"), Get (and with it True, False, Null and Empty)
\* terminates and returns an expression.
C29_GetTerminates ==
    [][(lastOp'.op = "Get") => (~fatal' /\ lastOp'.res # NilExpr)]_vars

-----------------------------------------------------------------------------
(* The inputs of Parse and Evaluate                                        *)

\* The largest number of operators in a row of an unparenthesised boolean
\* expression.
MaxOps == 3

\* The largest number of string literals in a concatenation.
MaxChain == 3

sSpace == <<" ">>
sA == <<"a">>
sB == <<"b", " ">>

\* A boolean source expression is a row of atoms separated by operators;
\* an atom is true, false or a parenthesised row.
Lit(b) == [k |-> "lit", b |-> b, op |-> <<>>, in |-> <<>>]
Op(o)  == [k |-> "op", b |-> FALSE, op |-> o, in |-> <<>>]
Grp(c) == [k |-> "grp", b |-> FALSE, op |-> <<>>, in |-> c]

opEq  == <<"=", "=">>
opNe  == <<"!", "=">>
opAnd == <<"&", "&">>
opOr  == <<"|", "|">>
opGe  == <<">", "=">>
opGt  == <<">">>
opLe  == <<"<", "=">>
opLt  == <<"<">>

BoolOps == {opEq, opNe, opAnd, opOr}
CmpOps == {opEq, opNe}
AllCmpOps == {opEq, opNe, opGe, opGt, opLe, opLt}

Lits == {Lit(TRUE), Lit(FALSE)}

\* The rows of exactly n operators over the atoms A.
RECURSIVE RowsOf(_, _)
RowsOf(A, n) ==
    IF n = 0 THEN {<<a>> : a \in A}
    ELSE {c \o <<Op(o), a>> : c \in RowsOf(A, n - 1), o \in BoolOps, a \in A}

RowsUpTo(A, n) == UNION {RowsOf(A, k) : k \in 0..n}

\* Rows without parentheses, rows of two atoms of which any may be a
\* parenthesised row, and parentheses inside parentheses.
BoolSources ==
    LET inner == RowsUpTo(Lits, 1)
        atoms == Lits \cup {Grp(c) : c \in inner}
    IN  RowsUpTo(Lits, MaxOps)
          \cup RowsUpTo(atoms, 1)
          \cup {<<Grp(<<Grp(c)>>)>> : c \in inner}

\* The source text of a row.
RECURSIVE Unparse(_)
Unparse(c) ==
    IF c = <<>> THEN <<>>
    ELSE LET h == Head(c) IN
         (CASE h.k = "lit" -> (IF h.b THEN sTrue ELSE sFalse)
            [] h.k = "op"  -> sSpace \o h.op \o sSpace
            [] OTHER       -> <<"(">> \o Unparse(h.in) \o <<")">>)
         \o Unparse(Tail(c))

\* The places of the operators ops in the row c.
OpsAt(c, ops) == {k \in 1..Len(c) : c[k].k = "op" /\ c[k].op \in ops}

Last(S) == CHOOSE k \in S : \A j \in S : j <= k

\* The boolean a row denotes: || binds loosest, then &&, then == and !=,
\* each associating to the left; parentheses make one atom.
RECURSIVE Native(_, _)
Native(c, level) ==
    LET ops == CASE level = 1 -> {opOr} [] level = 2 -> {opAnd} [] OTHER -> CmpOps
        at  == OpsAt(c, ops)
        k   == Last(at)
        l   == Native(SubSeq(c, 1, k - 1), level)
        r   == Native(SubSeq(c, k + 1, Len(c)), level + 1)
    IN  IF level = 4
          THEN (IF c[1].k = "lit" THEN c[1].b ELSE Native(c[1].in, 1))
        ELSE IF at = {} THEN Native(c, level + 1)
        ELSE IF level = 1 THEN l \/ r
        ELSE IF level = 2 THEN l /\ r
        ELSE IF c[k].op = opEq THEN l = r
        ELSE l # r

\* A comparison one of whose operands is a comparison without parentheses
\* of its own.
RECURSIVE Chained(_)
Chained(c) ==
    \/ \E i, j \in OpsAt(c, CmpOps) :
          i < j /\ OpsAt(SubSeq(c, i, j), {opAnd, opOr}) = {}
    \/ \E k \in 1..Len(c) : c[k].k = "grp" /\ Chained(c[k].in)

BoolJobs ==
    {Job("bool", Unparse(c), NilExpr, BoolV(Native(c, 1)),
         IF Chained(c) THEN "chained" ELSE "plain") : c \in BoolSources}

\* Conditionals c ? a : b.  A condition is <<text, whether it holds>>, a
\* branch <<text, the payload it denotes>>.
Conditions ==
    {<<sTrue, TRUE>>, <<sFalse, FALSE>>,
     <<sFalse \o sSpace \o opEq \o sSpace \o sTrue, FALSE>>,
     <<sTrue \o sSpace \o opEq \o sSpace \o sTrue, TRUE>>,
     <<sTrue \o sSpace \o opNe \o sSpace \o sTrue, FALSE>>,
     <<<<"0">> \o sSpace \o opEq \o sSpace \o <<"0">>, TRUE>>,
     <<<<"1">> \o sSpace \o opEq \o sSpace \o <<"2">>, FALSE>>,
     <<<<"1">> \o sSpace \o opEq \o sSpace \o <<"1">>, TRUE>>}

Quoted(str) == <<"\"">> \o str \o <<"\"">>

Branches ==
    {<<sTrue, BoolV(TRUE)>>, <<sFalse, BoolV(FALSE)>>, <<Quoted(sA), StringV(sA)>>}

CondText(c, a, b, sep) == c \o sep \o <<"?">> \o sep \o a \o sep \o <<":">> \o sep \o b

\* A conditional whose first branch is a parenthesised conditional.
NestedCondText(c) ==
    CondText(c, <<"(">> \o CondText(sTrue \o sSpace \o opEq \o sSpace \o sTrue,
                                    sTrue, sFalse, <<>>) \o <<")">>,
             sFalse, <<>>)

CondJobs ==
    {Job("cond", CondText(c[1], a[1], b[1], sep), NilExpr,
         IF c[2] THEN a[2] ELSE b[2], IF c[2] THEN "truthy" ELSE "falsy") :
        c \in Conditions, a \in Branches, b \in Branches, sep \in {<<>>, sSpace}}
    \cup {Job("cond", NestedCondText(c[1]), NilExpr,
              BoolV(c[2]), IF c[2] THEN "truthy" ELSE "falsy") : c \in Conditions}

\* Concatenations of string literals.
Strs == {<<>>, sA, sB}

RECURSIVE StrRows(_)
StrRows(n) ==
    IF n = 0 THEN {<<>>} ELSE {Append(c, x) : c \in StrRows(n - 1), x \in Strs}

RECURSIVE Join(_)
Join(c) == IF c = <<>> THEN <<>> ELSE Head(c) \o Join(Tail(c))

RECURSIVE ConcatText(_, _, _)
ConcatText(c, q, sep) ==
    IF Len(c) = 1 THEN q \o c[1] \o q
    ELSE q \o c[1] \o q \o sep \o <<"+">> \o sep \o ConcatText(Tail(c), q, sep)

HostScalar(v) == NewScalarExprV(v, "host")

\* The tree of a concatenation nested to the left, which no text parses to.
RECURSIVE LeftConcat(_)
LeftConcat(c) ==
    IF Len(c) = 1 THEN HostScalar(StringV(c[1]))
    ELSE NewConcatExpr(LeftConcat(SubSeq(c, 1, Len(c) - 1)), HostScalar(StringV(c[Len(c)])))

StrChains == UNION {StrRows(n) : n \in 2..MaxChain}

ConcatJobs ==
    {Job("concat", ConcatText(c, q, sep), NilExpr, StringV(Join(c)), "text") :
        c \in StrChains, q \in {<<"\"">>, <<"'">>}, sep \in {<<>>, sSpace}}
    \cup {Job("concat", <<>>, LeftConcat(c), StringV(Join(c)), "left") : c \in StrChains}

\* Trees the host builds from the constructors.  An operand of a comparison
\* is [e, t, n]: the node, the type of the payload it evaluates to and the
\* payload as a number (false 0, true 1).
Operand(e, t, n) == [e |-> e, t |-> t, n |-> n]

CompareOperands ==
    {Operand(HostScalar(BoolV(b)), "bool", IF b THEN 1 ELSE 0) : b \in BOOLEAN}
    \cup {Operand(HostScalar(Int64V(i)), "int64", i) : i \in {-1, 0, 1}}
    \cup {Operand(HostScalar(Uint64V(u)), "uint64", u) : u \in {0, 2}}
    \cup {Operand(HostScalar(StringV(sA)), "string", 0),
          Operand(HostScalar(NilV), "nil", 0),
          Operand(NewSymbolExpr(sNull), "nil", 0),
          Operand(NewSymbolExpr(sTrue), "bool", 1)}

\* The native relation a op b.
NativeRel(op, a, b) ==
    CASE op = opEq -> a = b
      [] op = opNe -> a # b
      [] op = opGe -> a >= b
      [] op = opGt -> a > b
      [] op = opLe -> a <= b
      [] OTHER     -> a < b

CompareNote(l, r) ==
    IF l.t = "nil" \/ r.t = "nil" THEN "nil"
    ELSE IF l.t = r.t /\ l.t \in {"bool", "int64", "uint64"} THEN "same"
    ELSE "other"

CompareJobs ==
    {Job("compare", <<>>, NewCompareExpr(op, l.e, r.e),
         BoolV(NativeRel(op, l.n, r.n)), CompareNote(l, r)) :
        op \in AllCmpOps, l \in CompareOperands, r \in CompareOperands}

\* An operand of a concatenation is [e, t, n]: the node, "nil" or "full" for
\* the payload it evaluates to, and (in n) the string form of that payload.
ConcatOperands ==
    {Operand(HostScalar(StringV(sA)), "full", sA),
     Operand(HostScalar(Int64V(7)), "full", <<"7">>),
     Operand(HostScalar(BoolV(TRUE)), "full", sTrue),
     Operand(NewSymbolExpr(sEmpty), "full", <<>>),
     Operand(HostScalar(NilV), "nil", <<>>),
     Operand(NewSymbolExpr(sNull), "nil", <<>>),
     Operand(NewSymbolExpr(sX), "nil", <<>>)}

NilConcatJobs ==
    {Job("nilconcat", <<>>, NewConcatExpr(l.e, r.e), StringV(l.n \o r.n),
         IF l.t = "nil" \/ r.t = "nil" THEN "nil" ELSE "full") :
        l \in ConcatOperands, r \in ConcatOperands}
    \cup {Job("nilconcat", Quoted(sA) \o <<" ", "+", " ">> \o sNull, NilExpr, StringV(sA), "nil"),
          Job("nilconcat", sNull \o <<" ", "+", " ">> \o Quoted(sA), NilExpr, StringV(sA), "nil"),
          Job("nilconcat", sNull \o <<" ", "+", " ">> \o sNull, NilExpr, StringV(<<>>), "nil")}

\* A condition of a host-built conditional is <<node, what it evaluates to>>:
\* truthy, falsy, or an error.
HostConditions ==
    {<<NewSymbolExpr(sTrue), "truthy">>,
     <<NewSymbolExpr(sFalse), "falsy">>,
     <<NewSymbolExpr(sNull), "falsy">>,
     <<NewSymbolExpr(sX), "falsy">>,
     <<HostScalar(NilV), "falsy">>,
     <<HostScalar(StringV(sA)), "truthy">>,
     <<HostScalar(BoolV(TRUE)), "truthy">>,
     <<HostScalar(BoolV(FALSE)), "falsy">>,
     <<NewCompareExpr(opEq, NewSymbolExpr(sTrue), NewSymbolExpr(sFalse)), "falsy">>,
     <<NewCompareExpr(opGe, HostScalar(Int64V(1)), HostScalar(Int64V(0))), "truthy">>,
     <<NewCompareExpr(opEq, HostScalar(StringV(sA)), HostScalar(StringV(sA))), "error">>}

HostBranches ==
    {NewSymbolExpr(sTrue),
     HostScalar(StringV(sA)),
     NewConcatExpr(HostScalar(StringV(sA)), HostScalar(StringV(sA))),
     NewCompareExpr(opEq, HostScalar(StringV(sA)), HostScalar(StringV(sA)))}

BranchJobs ==
    {Job("branch", <<>>, NewCondExpr(c[1], l, r), NilV, c[2]) :
        c \in HostConditions, l \in HostBranches, r \in HostBranches}

\* The largest number of elements of a host-built list.
MaxList == 2

sNilText == <<"<", "n", "i", "l", ">">>
s7 == <<"7">>

\* A probe or element of `in` is [e, t, n]: the node, the type of its
\* payload and (in n) the text fmt prints for that payload.
InOperands ==
    {Operand(HostScalar(StringV(sA)), "string", sA),
     Operand(HostScalar(StringV(s7)), "string", s7),
     Operand(HostScalar(Int64V(7)), "int64", s7),
     Operand(HostScalar(BoolV(TRUE)), "bool", sTrue),
     Operand(NewSymbolExpr(sTrue), "bool", sTrue),
     Operand(HostScalar(NilV), "nil", sNilText),
     Operand(NewSymbolExpr(sNull), "nil", sNilText)}

InElements ==
    {x \in InOperands : x.e \in {HostScalar(StringV(sA)), HostScalar(Int64V(7)),
                                 NewSymbolExpr(sTrue), HostScalar(NilV)}}

RECURSIVE ElemRows(_)
ElemRows(n) ==
    IF n = 0 THEN {<<>>} ELSE {Append(c, x) : c \in ElemRows(n - 1), x \in InElements}

\* The ListExpr the host builds with NewListExpr and Append.
ListOf(c) == [NewListExpr EXCEPT !.kids = [k \in 1..Len(c) |-> c[k].e]]

InText(probe, elems) == probe \o <<" ", "i", "n", " ">> \o elems

InJobs ==
    {Job("in", <<>>, NewInExpr(p.e, ListOf(c)),
         BoolV(\E k \in 1..Len(c) : c[k].n = p.n), "list") :
        p \in InOperands, c \in UNION {ElemRows(n) : n \in 0..MaxList}}
    \cup {Job("in", <<>>, NewInExpr(p.e, q.e), BoolV(FALSE), "notlist") :
            p \in InOperands, q \in InOperands}
    \cup {Job("in", InText(Quoted(sA), <<"[">> \o Quoted(sB) \o <<",", " ">> \o Quoted(sA) \o <<"]">>),
              NilExpr, BoolV(TRUE), "list"),
          Job("in", InText(Quoted(sA), <<"[">> \o Quoted(sB) \o <<"]">>),
              NilExpr, BoolV(FALSE), "list"),
          Job("in", InText(Quoted(sA), <<"[", "]">>), NilExpr, BoolV(FALSE), "list"),
          Job("in", InText(Quoted(sA), Quoted(sA)), NilExpr, BoolV(FALSE), "notlist")}

\* The longest text and the longest pattern given to like.
MaxText == 2
MaxPat == 3

RECURSIVE TextsOf(_, _)
TextsOf(A, n) ==
    IF n = 0 THEN {<<>>} ELSE {Append(c, x) : c \in TextsOf(A, n - 1), x \in A}

LikeTexts == UNION {TextsOf({"a", "B"}, n) : n \in 0..MaxText}
LikePatterns == UNION {TextsOf({"A", "b", "*", "?"}, n) : n \in 0..MaxPat}

\* Whether the whole text t matches the pattern p read as a glob: * is any
\* run of characters, ? any one character, letters match without case.
RECURSIVE Glob(_, _)
Glob(t, p) ==
    IF p = <<>> THEN t = <<>>
    ELSE IF Head(p) = "*" THEN Glob(t, Tail(p)) \/ (t # <<>> /\ Glob(Tail(t), p))
    ELSE /\ t # <<>>
         /\ Head(p) = "?" \/ LowerChar(Head(p)) = LowerChar(Head(t))
         /\ Glob(Tail(t), Tail(p))

LikeJobs ==
    {Job("like", <<>>, NewLikeExpr(HostScalar(StringV(t)), HostScalar(StringV(p))),
         BoolV(Glob(t, p)), "") : t \in LikeTexts, p \in LikePatterns}

\* What may stand before a quoted string, and quoted strings whose closing
\* quote is missing: the input ends, a raw newline comes first, or a
\* backslash is the last character.
BeforeString ==
    {<<>>,
     <<"t", "r", "u", "e", " ", "=", "=", " ">>,
     <<"t", "r", "u", "e", " ", "&", "&", " ">>,
     <<"t", "r", "u", "e", " ">>,
     <<"\"", "a", "\"", " ", "+", " ">>,
     <<"\"", "a", "\"", " ">>,
     <<"p", "r", "i", "n", "t", "(">>,
     <<"p", "r", "i", "n", "t", "(", "\"", "a", "\"", ",", " ">>,
     <<"p", "r", "i", "n", "t", "(", "\"", "a", "\"", " ">>,
     <<"[">>,
     <<"[", "\"", "a", "\"", ",", " ">>,
     <<"t", "r", "u", "e", " ", "?", " ">>,
     <<"t", "r", "u", "e", " ", "?", " ", "\"", "a", "\"", " ", ":", " ">>,
     <<"(">>,
     <<"\"", "a", "\"", " ", "i", "n", " ">>,
     <<"\"", "a", "\"", " ", "l", "i", "k", "e", " ">>,
     <<"x", ".">>}

Unterminated ==
    {<<"\"", "a", "b">>,
     <<"'", "a", "b">>,
     <<"\"", "a", "\n", "b", "\"">>,
     <<"\"", "a", "\\">>,
     <<"\"">>,
     <<"\"", "a", "\\", "\n", "b", "\"">>}

UnterminatedJobs ==
    {Job("unterminated", b \o u, NilExpr, NilV, IF b = <<>> THEN "first" ELSE "later") :
        b \in BeforeString, u \in Unterminated}

\* Inputs in which a list literal is opened and the text ends before its "]".
UnclosedLists ==
    {<<"[">>,
     <<"[", " ">>,
     <<"[", "\"", "a", "\"">>,
     <<"[", "\"", "a", "\"", ",">>,
     <<"[", "\"", "a", "\"", ",", " ">>,
     <<"[", "\"", "a", "\"", ",", " ", "\"", "b", "\"">>,
     <<"[", "[">>,
     <<"[", "[", "\"", "a", "\"", "]">>,
     <<"[", "[", "\"", "a", "\"", "]", ",">>,
     <<"[", "t", "r", "u", "e">>,
     <<"[", "t", "r", "u", "e", ",">>,
     <<"[", "\"", "a", "\"", " ", "+", " ">>,
     <<"[", "(">>,
     <<"[", "7", ",", " ", "\"", "a", "\"">>}

BeforeList ==
    {<<>>,
     <<"\"", "a", "\"", " ", "i", "n", " ">>,
     <<"p", "r", "i", "n", "t", "(">>,
     <<"(">>,
     <<"t", "r", "u", "e", " ", "?", " ">>,
     <<"t", "r", "u", "e", " ", "?", " ", "\"", "a", "\"", " ", ":", " ">>,
     <<"\"", "a", "\"", " ", "+", " ">>,
     <<"t", "r", "u", "e", " ", "&", "&", " ">>,
     <<"[", "\"", "a", "\"", ",", " ">>}

UnclosedListJobs ==
    {Job("unclosedlist", b \o u, NilExpr, NilV, IF b = <<>> THEN "first" ELSE "later") :
        b \in BeforeList, u \in UnclosedLists}

\* Function calls: the host registers Multiply and the scoped function f of
\* x, and evaluates calls of print, Multiply and x.f whose arguments are
\* scalars or calls themselves.
MaxArgs == 2

sX1 == <<"x">>
sF == <<"f">>
sScopeF == <<"#ScopeFunc:">> \o sX1 \o <<".">> \o sF

\* cmd/main.go steps 1 and 2, and the registration of a scoped function
\* under the name its calls look up.
HostEnvironment ==
    RegisterScopedFunction(RegisterFunction(NewEnvironment, sMultiply), sScopeF,
                           NewSymbolExpr(sX1))

CallOf(callee, args) == [NewFuncCallExpr(NewSymbolExpr(callee)) EXCEPT !.kids = @ \o args]

ScopedCallOf(args) == [NewScopedFuncCallExpr(sF, NewSymbolExpr(sX1)) EXCEPT !.kids = @ \o args]

PlainArgs == {HostScalar(StringV(sA)), HostScalar(Int64V(7))}
PrintArg == CallOf(sPrint, <<HostScalar(StringV(sA))>>)
MultiplyArg == CallOf(sMultiply, <<HostScalar(Int64V(7)), HostScalar(Int64V(7))>>)

ArgRows == UNION {[1..k -> PlainArgs \cup {PrintArg, MultiplyArg}] : k \in 0..MaxArgs}

CallNote(args) ==
    IF \E k \in DOMAIN args : args[k] = MultiplyArg THEN "arg-fails" ELSE "args-ok"

CallTexts ==
    {<<"p", "r", "i", "n", "t", "(", ")">>,
     <<"p", "r", "i", "n", "t", "(", "\"", "a", "\"", ")">>,
     <<"p", "r", "i", "n", "t", "(", "\"", "a", "\"", ",", " ", "\"", "b", "\"", ")">>,
     <<"p", "r", "i", "n", "t", "(", "0", ",", " ", "\"", "a", "\"", ")">>,
     <<"p", "r", "i", "n", "t", "(", "p", "r", "i", "n", "t", "(", "\"", "a", "\"", ")", ")">>,
     <<"M", "u", "l", "t", "i", "p", "l", "y", "(", "0", ",", " ", "0", ")">>,
     <<"p", "r", "i", "n", "t", "(", "\"", "a", "\"", ",", " ", "M", "u", "l", "t", "i", "p", "l", "y", "(", "0", ",", " ", "0", ")", ")">>}

CallJobs ==
    {Job("call", <<>>, CallOf(c, a), NilV, CallNote(a)) : c \in {sPrint, sMultiply}, a \in ArgRows}
      \cup {Job("call", <<>>, ScopedCallOf(a), NilV, CallNote(a)) : a \in ArgRows}
      \cup {Job("call", t, NilExpr, NilV, IF Len(t) > 20 THEN "arg-fails" ELSE "args-ok") :
              t \in CallTexts}

\* Comparisons of strings with ==: two string scalars the host built, two
\* quoted strings in a text, and the script of the README and cmd/main.go,
\* evaluated in the environment Multiply is registered in.
sReadme ==
    <<"(", "M", "u", "l", "t", "i", "p", "l", "y", "(", "9", ",", "1", "0", ")", " ", "=", "=", " ", "9", "0", " ", "?", " ", "'", "Y", "e", "a", "h", "!", "'", ":", " ", "'", "O", "h", " ", "N", "o", "!", "'", ")", " ", "=", "=", " ", "'", "Y", "e", "a", "h", "!", "'">>

StrEqJobs ==
    {Job("streq", <<>>, NewCompareExpr(opEq, HostScalar(StringV(a)), HostScalar(StringV(b))),
         BoolV(a = b), "tree") : a \in Strs, b \in Strs}
      \cup {Job("streq", Quoted(a) \o <<" ", "=", "=", " ">> \o Quoted(b), NilExpr,
                BoolV(a = b), "text") : a \in Strs, b \in Strs}
      \cup {Job("streq", sReadme, NilExpr, BoolV(TRUE), "readme")}

\* Conditionals whose ":" is missing: the text ends after the first branch
\* or goes on with another token.
NoColonConds ==
    {<<"t", "r", "u", "e">>,
     <<"x">>,
     <<"\"", "a", "\"", " ", "=", "=", " ", "\"", "a", "\"">>,
     <<"p", "r", "i", "n", "t", "(", ")">>}

NoColonFirsts ==
    {<<"\"", "a", "\"">>,
     <<"t", "r", "u", "e">>,
     <<"x">>,
     <<"(", "\"", "a", "\"", ")">>,
     <<"[", "\"", "a", "\"", "]">>,
     <<"\"", "a", "\"", " ", "+", " ", "\"", "b", "\"">>}

NoColonTails ==
    {<<>>,
     <<" ">>,
     <<" ", "\"", "b", "\"">>,
     <<" ", ",", " ", "\"", "b", "\"">>,
     <<" ", ";", " ", "\"", "b", "\"">>,
     <<" ", ")">>,
     <<" ", "?", " ", "\"", "b", "\"">>,
     <<" ", "]">>,
     <<" ", "t", "r", "u", "e">>,
     <<" ", "=", "=", " ", "\"", "b", "\"">>}

NoColonJobs ==
    {Job("nocolon", c \o <<" ", "?", " ">> \o f \o t, NilExpr, NilV,
         IF t \in {<<>>, <<" ">>} \/ t[2] \in {"?", "="} THEN "ends" ELSE "goes-on") :
        c \in NoColonConds, f \in NoColonFirsts, t \in NoColonTails}

\* Dotted identifier chains and scoped calls, each with the tree the grammar
\* gives it.
DottedJobs ==
    {Job("dotted", <<"a", ".", "b">>,
         NewSymbolExprWithScope(<<"b">>, NewSymbolExpr(<<"a">>)), NilV, "chain"),
     Job("dotted", <<"a", ".", "b", ".", "c">>,
         NewSymbolExprWithScope(<<"c">>, NewSymbolExprWithScope(<<"b">>, NewSymbolExpr(<<"a">>))), NilV, "chain"),
     Job("dotted", <<"a", ".", "b", " ">>,
         NewSymbolExprWithScope(<<"b">>, NewSymbolExpr(<<"a">>)), NilV, "chain"),
     Job("dotted", <<"a", ".", "b", "(", ")">>,
         NewScopedFuncCallExpr(<<"b">>, NewSymbolExpr(<<"a">>)), NilV, "call-last"),
     Job("dotted", <<"a", ".", "b", "(", "\"", "a", "\"", ")">>,
         AddArg(NewScopedFuncCallExpr(<<"b">>, NewSymbolExpr(<<"a">>)), NewScalarExpr(Quoted(sA), StringV(sA), "ast")), NilV, "call-last"),
     Job("dotted", <<"a", ".", "b", "(", "\"", "a", "\"", ",", " ", "t", "r", "u", "e", ")">>,
         AddArg(AddArg(NewScopedFuncCallExpr(<<"b">>, NewSymbolExpr(<<"a">>)), NewScalarExpr(Quoted(sA), StringV(sA), "ast")), NewSymbolExpr(sTrue)), NilV, "call-last"),
     Job("dotted", <<"a", ".", "b", "(", "\"", "a", "\"", ")", " ", "=", "=", " ", "t", "r", "u", "e">>,
         NewCompareExpr(opEq, AddArg(NewScopedFuncCallExpr(<<"b">>, NewSymbolExpr(<<"a">>)), NewScalarExpr(Quoted(sA), StringV(sA), "ast")), NewSymbolExpr(sTrue)), NilV, "call-then"),
     Job("dotted", <<"a", ".", "b", "(", ")", " ", "&", "&", " ", "t", "r", "u", "e">>,
         NewAndExpr(NewScopedFuncCallExpr(<<"b">>, NewSymbolExpr(<<"a">>)), NewSymbolExpr(sTrue)), NilV, "call-then"),
     Job("dotted", <<"a", ".", "b", " ", "=", "=", " ", "t", "r", "u", "e">>,
         NewCompareExpr(opEq, NewSymbolExprWithScope(<<"b">>, NewSymbolExpr(<<"a">>)), NewSymbolExpr(sTrue)), NilV, "chain"),
     Job("dotted", <<"[", "a", ".", "b", ".", "c", "]">>,
         AddArg(NewListExpr, NewSymbolExprWithScope(<<"c">>, NewSymbolExprWithScope(<<"b">>, NewSymbolExpr(<<"a">>)))), NilV, "chain")}

\* Rows of the atoms a, b, c, ... separated by operators of the four binary
\* tiers: o[k] stands between the k-th atom and the next.
opPlus == <<"+">>

PrecOps == {opOr, opAnd, opEq, opLe, opPlus}

PrecAtom(k) == <<<<"a", "b", "c", "d", "e", "f", "g", "h">>[k]>>

PrecRows == UNION {[1..n -> PrecOps] : n \in 1..MaxOps}

\* cmpExpr takes one comparator: no two in a row without && or || between.
InGrammar(o) ==
    \A k \in DOMAIN o, j \in DOMAIN o :
        (k < j /\ o[k] \in {opEq, opLe} /\ o[j] \in {opEq, opLe})
            => \E m \in (k + 1)..(j - 1) : o[m] \in {opOr, opAnd}

RECURSIVE PrecText(_, _)
PrecText(o, k) ==
    IF k > Len(o) THEN PrecAtom(k)
    ELSE PrecAtom(k) \o sSpace \o o[k] \o sSpace \o PrecText(o, k + 1)

Min(S) == CHOOSE k \in S : \A j \in S : k <= j

\* The tree the grammar gives the atoms i..j of the row o: orExpr at level
\* 1, andExpr at 2, cmpExpr at 3, concatExpr at 4.
RECURSIVE GrammarTree(_, _, _, _)
GrammarTree(o, i, j, level) ==
    LET ops == CASE level = 1 -> {opOr} [] level = 2 -> {opAnd}
                 [] level = 3 -> {opEq, opLe} [] OTHER -> {opPlus}
        at  == {k \in i..(j - 1) : o[k] \in ops}
        k   == Min(at)
    IN  IF i = j THEN NewSymbolExpr(PrecAtom(i))
        ELSE IF at = {} THEN GrammarTree(o, i, j, level + 1)
        ELSE IF level = 1
          THEN NewOrExpr(GrammarTree(o, i, k, 2), GrammarTree(o, k + 1, j, 1))
        ELSE IF level = 2
          THEN NewAndExpr(GrammarTree(o, i, k, 3), GrammarTree(o, k + 1, j, 2))
        ELSE IF level = 3
          THEN NewCompareExpr(o[k], GrammarTree(o, i, k, 4), GrammarTree(o, k + 1, j, 4))
        ELSE NewConcatExpr(GrammarTree(o, i, k, 4), GrammarTree(o, k + 1, j, 4))

PrecJobs ==
    {Job("prec", PrecText(o, 1), GrammarTree(o, 1, Len(o) + 1, 1), NilV, "") :
        o \in {r \in PrecRows : InGrammar(r)}}

\* Numeric literals, each with the number it denotes (a float in 1/FracUnit).
NumberJobs ==
    {Job("number", <<"0">>, NilExpr, Int64V(0), "int"),
     Job("number", <<"1">>, NilExpr, Int64V(1), "int"),
     Job("number", <<"2">>, NilExpr, Int64V(2), "int"),
     Job("number", <<"7">>, NilExpr, Int64V(7), "int"),
     Job("number", <<"1", "0">>, NilExpr, Int64V(10), "int"),
     Job("number", <<"9", "0">>, NilExpr, Int64V(90), "int"),
     Job("number", <<"0", "0", "7">>, NilExpr, Int64V(7), "int"),
     Job("number", <<"0", "x", "1", "F">>, NilExpr, Int64V(31), "int"),
     Job("number", <<"0", "X", "a">>, NilExpr, Int64V(10), "int"),
     Job("number", <<"0", "x", "0">>, NilExpr, Int64V(0), "int"),
     Job("number", <<"0", "o", "1", "7">>, NilExpr, Int64V(15), "int"),
     Job("number", <<"0", "O", "7">>, NilExpr, Int64V(7), "int"),
     Job("number", <<"0", "b", "1", "0", "1">>, NilExpr, Int64V(5), "int"),
     Job("number", <<"0", "B", "1">>, NilExpr, Int64V(1), "int"),
     Job("number", <<"0", ".", "5">>, NilExpr, Float64V((500 * FracUnit) \div 1000), "float"),
     Job("number", <<"1", ".", "5">>, NilExpr, Float64V((1500 * FracUnit) \div 1000), "float"),
     Job("number", <<"1", "0", ".", "2", "5">>, NilExpr, Float64V((10250 * FracUnit) \div 1000), "float"),
     Job("number", <<"0", ".", "1", "2", "5">>, NilExpr, Float64V((125 * FracUnit) \div 1000), "float"),
     Job("number", <<"2", ".", "0">>, NilExpr, Float64V((2000 * FracUnit) \div 1000), "float")}

\* Or and And trees the host builds over every pair of HostConditions.  note
\* is the class of the left operand; want the boolean the truthiness rule
\* gives the node, NilV when an operand that is evaluated ends in an error.
OrWant(l, r) ==
    IF l = "error" THEN NilV
    ELSE IF l = "truthy" THEN BoolV(TRUE)
    ELSE IF r = "error" THEN NilV
    ELSE BoolV(r = "truthy")

AndWant(l, r) ==
    IF l = "error" THEN NilV
    ELSE IF l = "falsy" THEN BoolV(FALSE)
    ELSE IF r = "error" THEN NilV
    ELSE BoolV(r = "truthy")

TruthJobs ==
    {Job("or", <<>>, NewOrExpr(l[1], r[1]), OrWant(l[2], r[2]), l[2]) :
        l \in HostConditions, r \in HostConditions}
    \cup {Job("and", <<>>, NewAndExpr(l[1], r[1]), AndWant(l[2], r[2]), l[2]) :
        l \in HostConditions, r \in HostConditions}

\* Calls whose callee is not a function: an unregistered name, a name bound
\* to a value, a scalar the host put in the callee's place, and a scoped
\* call of a name nothing is registered under.
NotFunctions == {NewSymbolExpr(sX1), NewSymbolExpr(sTrue), HostScalar(StringV(sA))}

NoFuncJobs ==
    {Job("nofunc", <<>>, [NewFuncCallExpr(c) EXCEPT !.kids = @ \o a], NilV, "plain") :
        c \in NotFunctions, a \in ArgRows}
      \cup {Job("nofunc", <<>>,
                [NewScopedFuncCallExpr(sPrint, NewSymbolExpr(sX1)) EXCEPT !.kids = @ \o a],
                NilV, "scoped") : a \in ArgRows}

Jobs == BoolJobs \cup CondJobs \cup ConcatJobs \cup CompareJobs \cup NilConcatJobs
          \cup BranchJobs
          \cup InJobs
          \cup LikeJobs
          \cup UnterminatedJobs
          \cup UnclosedListJobs
          \cup CallJobs
          \cup StrEqJobs
          \cup NoColonJobs
          \cup DottedJobs
          \cup PrecJobs
          \cup NumberJobs
          \cup TruthJobs
          \cup NoFuncJobs

-----------------------------------------------------------------------------
(* Parse and Evaluate as a state machine: a host is given a text or builds *)
(* a tree, parses the text and evaluates the tree in a fresh environment   *)

EvalInit ==
    /\ job \in Jobs
    /\ globalFuncs = IF job.kind \in {"call", "streq", "nofunc"} THEN HostEnvironment ELSE NewEnvironment
    /\ AutoregisterGlobals \in BOOLEAN
    /\ fatal = FALSE
    /\ lockReq = [n \in EnvNames |-> n \in {sNull, sTrue, sFalse}]
    /\ lastOp = OpRecord("NewEnvironment", <<>>, FALSE, FALSE, NilExpr)
    /\ pc = IF job.text = <<>> THEN "tree" ELSE "text"
    /\ tree = job.tree
    /\ perr = NoErr
    /\ outcome = NoResult
    /\ tokens = NoChannel
    /\ client = NoClient

\* expr.Parse(job.text)
CallParse ==
    /\ pc = "text"
    /\ LET p == Parse(job.text) IN
       /\ tree' = p.expr
       /\ perr' = p.err
       /\ pc' = IF p.err = NoErr THEN "tree" ELSE "failed"
    /\ UNCHANGED <<envVars, job, outcome, lexVars>>

\* tree.Evaluate(env)
CallEvaluate ==
    /\ pc = "tree"
    /\ LET r == Evaluate(tree, NewEvalState(globalFuncs, AutoregisterGlobals), <<>>) IN
       /\ outcome' = Outcome(r.res, r.err, r.st.log, r.st.calls, r.st.stack)
       /\ globalFuncs' = r.st.g
       /\ fatal' = r.st.fatal
    /\ pc' = "done"
    /\ UNCHANGED <<AutoregisterGlobals, lockReq, lastOp, job, tree, perr, lexVars>>

EvalNext == CallParse \/ CallEvaluate

EvalSpec == EvalInit /\ [][EvalNext]_vars

-----------------------------------------------------------------------------
(* The lexer goroutine and the caller of NextToken and PushBack: run sends *)
(* the tokens over the unbuffered channel and closes it, the caller is the *)
(* parser making the calls Parse makes on the text, or a free caller       *)

MaxMoves == 7

ParserTexts ==
    UnclosedLists \cup Unterminated \cup CallTexts
      \cup {<<"t", "r", "u", "e", " ", "=", "=", " ", "f", "a", "l", "s", "e">>,
           <<"t", "r", "u", "e", " ", "?", " ", "\"", "a", "\"", " ", ":", " ", "\"", "b", "\"">>,
           <<"\"", "a", "\"", " ", "i", "n", " ", "[", "\"", "a", "\"", ",", " ", "\"", "b", "\"", "]">>,
           <<"\"", "a", "\"", " ", "+", " ", "\"", "b", "\"", " ", "l", "i", "k", "e", " ", "\"", "a", "*", "\"">>,
           <<"(", "t", "r", "u", "e", " ", "&", "&", " ", "f", "a", "l", "s", "e", ")", " ", "|", "|", " ", "t", "r", "u", "e">>,
           <<"x", ".", "y">>,
           <<"t", "r", "u", "e", " ", "f", "a", "l", "s", "e">>,
           <<"0", ".", "5", " ", "<", "=", " ", "0">>,
           <<"p", "r", "i", "n", "t", "(", "\"", "a", "\"", " ", "\"", "b", "\"", ")">>,
           <<"[", "\"", "a", "\"", " ", "\"", "b", "\"", "]">>,
           <<"p", "r", "i", "n", "t", "(", ",", ")">>,
           <<"[", ",", "]">>,
           <<"(", "(">>,
           <<")">>,
           <<"p", "r", "i", "n", "t", "(", "\"", "a", "\"", ",", ",", "\"", "b", "\"", ")">>,
           <<"[", "[", "[", "\"", "a", "\"", "]", "]", "]">>,
           <<"t", "r", "u", "e", " ", "?", " ", "t", "r", "u", "e", " ", "?", " ", "\"", "a", "\"">>}

FreeTexts ==
    {<<"a", " ", "b", " ", "c">>,
     <<"a", " ", "\"", "b">>}

LexInit ==
    /\ globalFuncs = NewEnvironment
    /\ AutoregisterGlobals = FALSE
    /\ fatal = FALSE
    /\ lockReq = [n \in EnvNames |-> n \in {sNull, sTrue, sFalse}]
    /\ lastOp = OpRecord("NewEnvironment", <<>>, FALSE, FALSE, NilExpr)
    /\ pc = "lex"
    /\ job = NoJob
    /\ tree = NilExpr
    /\ perr = NoErr
    /\ outcome = NoResult
    /\ client \in {Client("parser", t, Parse(t).lx.calls) : t \in ParserTexts}
                    \cup {Client("free", t, <<>>) : t \in FreeTexts}
    /\ tokens = Channel(run(newLexer(FALSE, client.input)))

\* The token view the caller has when the channel would deliver stream.
View(stream) == [stack |-> client.tokenStack, stream |-> stream, calls |-> client.calls]

\* The caller after the call that left the view lx.
Returned(lx) ==
    [client EXCEPT !.tokenStack = lx.stack, !.calls = lx.calls, !.waiting = FALSE]

\* The next call of the caller may be op: the parser follows its script, a
\* free caller makes up to MaxMoves calls.
MayCall(op) ==
    /\ ~client.waiting
    /\ client.mode = "parser" =>
         /\ Len(client.calls) < Len(client.script)
         /\ client.script[Len(client.calls) + 1].op = op
    /\ client.mode = "free" => Len(client.calls) < MaxMoves

\* run returning without closing the channel.
leaveOpen(c) == c

\* close(l.tokens)
closeTokens(c) == [c EXCEPT !.closed = TRUE, !.closes = @ + 1]

\* lexer.NextToken is called: a pushed-back token is returned at once,
\* otherwise the caller blocks in the receive.
CallNextToken ==
    /\ MayCall("NextToken")
    /\ client' = IF client.tokenStack # <<>>
                   THEN Returned(NextToken(View(<<>>)).lx)
                   ELSE [client EXCEPT !.waiting = TRUE]
    /\ UNCHANGED <<envVars, evalVars, tokens>>

\* The send of emit meets the receive of NextToken.
Deliver ==
    /\ client.waiting
    /\ tokens.todo # <<>>
    /\ client' = Returned(NextToken(View(<<Head(tokens.todo)>>)).lx)
    /\ tokens' = [tokens EXCEPT !.todo = Tail(@), !.sent = Append(@, Head(tokens.todo))]
    /\ UNCHANGED <<envVars, evalVars>>

\* run has left its loop and closes the channel.
Close ==
    /\ tokens.todo = <<>>
    /\ ~tokens.closed
    /\ tokens' = closeTokens(tokens)
    /\ UNCHANGED <<envVars, evalVars, client>>

\* The receive of NextToken on the closed channel.
ReceiveClosed ==
    /\ client.waiting
    /\ tokens.closed
    /\ client' = Returned(NextToken(View(<<>>)).lx)
    /\ UNCHANGED <<envVars, evalVars, tokens>>

\* lexer.PushBack(t): the parser pushes what its script says, a free caller
\* any token NextToken has returned to it.
CallPushBack(t) ==
    /\ MayCall("PushBack")
    /\ client.mode = "parser" => t = client.script[Len(client.calls) + 1].tok
    /\ client.mode = "free" =>
         \E k \in DOMAIN client.calls :
             /\ client.calls[k] = Call("NextToken", t, FALSE)
    /\ client' = Returned(PushBack(View(<<>>), t))
    /\ UNCHANGED <<envVars, evalVars, tokens>>

\* Every token a caller can hold.
Tokens == {c.tok : c \in {client.calls[k] : k \in DOMAIN client.calls}}
            \cup {client.script[k].tok : k \in DOMAIN client.script}

LexNext ==
    \/ CallNextToken
    \/ Deliver
    \/ Close
    \/ ReceiveClosed
    \/ \E t \in Tokens : CallPushBack(t)

LexSpec == LexInit /\ [][LexNext]_vars

\* The Go scheduler runs every goroutine that can take a step: run, when it
\* can send or close, and the parser, which is never suspended but in the
\* receive of NextToken.  A free caller may stop calling.
LexLive ==
    /\ LexSpec
    /\ WF_vars(Deliver)
    /\ WF_vars(Close)
    /\ WF_vars(ReceiveClosed)
    /\ WF_vars(client.mode = "parser" /\ CallNextToken)
    /\ WF_vars(client.mode = "parser" /\ \E t \in Tokens : CallPushBack(t))

-----------------------------------------------------------------------------
(* Claims about parsing and evaluation *)

\* The text was parsed without an error and, once evaluated, gave without
\* an error a Scalar of the payload the job denotes.
GivesWanted ==
    /\ pc # "failed"
    /\ pc = "done" =>
         /\ outcome.err = NoErr
         /\ outcome.res.kind = "Scalar"
         /\ outcome.res.value = job.want

\* How often the node at place p was evaluated.
Evaluations(p) == Cardinality({k \in 1..Len(outcome.log) : outcome.log[k] = p})

\* C4: parsing and evaluating `c ? a : b` yields the value of a when c
\* holds and the value of b when it does not, for every condition and every
\* pair of branch values.
C4_CondPicksBranch ==
    (job.kind = "cond" /\ pc # "text") => GivesWanted

\* C5: CondExpr.Evaluate evaluates its condition once and then exactly one
\* branch: the right one when the condition is truthy, the left one when it
\* is falsy (nil, Null, False or a payload of nil or false); the result is
\* that branch's result.
C5_OneBranch ==
    (job.kind = "branch" /\ pc = "done" /\ job.note # "error") =>
        LET pick  == IF job.note = "truthy" THEN 3 ELSE 2
            other == 5 - pick
            b     == Evaluate(job.tree.kids[pick],
                              NewEvalState(NewEnvironment, AutoregisterGlobals), <<pick>>)
        IN  /\ Evaluations(<<1>>) = 1
            /\ Evaluations(<<pick>>) = 1
            /\ Evaluations(<<other>>) = 0
            /\ outcome.res = b.res
            /\ outcome.err = b.err

\* C6 as stated: every expression over true, false, ==, !=, &&, || and
\* parentheses parses and evaluates to a Scalar of the boolean it denotes.
C6_BoolExprs ==
    (job.kind = "bool" /\ pc # "text") => GivesWanted

\* C6: every expression over true, false, ==, !=, &&, || and parentheses in
\* which no operand of a comparison is a comparison without parentheses of
\* its own parses and evaluates to a Scalar of the boolean it denotes.
C6_BoolExprsUnchained ==
    (job.kind = "bool" /\ job.note = "plain" /\ pc # "text") => GivesWanted

C6_Witness ==
    /\ job.kind = "bool"
    /\ job.note = "plain"
    /\ job.text = Unparse(<<Lit(TRUE), Op(opAnd),
                            Grp(<<Lit(FALSE), Op(opAnd), Lit(TRUE)>>)>>)
    /\ pc = "done"
    /\ outcome.res.value = BoolV(FALSE)

\* C7: for two Scalars of one supported type (bool, int64, uint64), neither
\* nil, the comparison returns the environment's True when the native
\* relation holds and the environment's False otherwise, for each of the
\* six operators, and no error.
C7_CompareSameType ==
    (job.kind = "compare" /\ job.note = "same" /\ pc = "done") =>
        /\ outcome.err = NoErr
        /\ outcome.res = StoredExpr(globalFuncs, IF job.want.b THEN sTrue ELSE sFalse)

C7_Witness ==
    /\ job.kind = "compare"
    /\ job.note = "same"
    /\ job.tree = NewCompareExpr(opGt, HostScalar(Int64V(1)), HostScalar(Int64V(-1)))
    /\ pc = "done"
    /\ outcome.res.addr = "true"

\* C8: a comparison one of whose operands has a nil payload evaluates to the
\* environment's False without an error, for every one of the six
\* operators.
C8_CompareNil ==
    (job.kind = "compare" /\ job.note = "nil" /\ pc = "done") =>
        /\ outcome.err = NoErr
        /\ outcome.res = StoredExpr(globalFuncs, sFalse)

C8_Witness ==
    /\ job.kind = "compare"
    /\ job.note = "nil"
    /\ job.tree = NewCompareExpr(opNe, NewSymbolExpr(sNull), NewSymbolExpr(sNull))
    /\ pc = "done"
    /\ outcome.res.addr = "false"

\* C9: a chain of string literals joined with + parses and evaluates to a
\* fresh Scalar with an empty literal whose payload is the strings joined in
\* source order, however the chain is nested.
C9_ConcatChain ==
    (job.kind = "concat" /\ pc # "text") =>
        /\ GivesWanted
        /\ pc = "done" => (outcome.res.name = <<>> /\ outcome.res.addr = "tmp")

C9_Witness ==
    /\ job.kind = "concat"
    /\ job.text = ConcatText(<<sA, sB, sA>>, <<"\"">>, sSpace)
    /\ pc = "done"
    /\ outcome.res.value = StringV(<<"a", "b", " ", "a">>)

\* C10: a nil operand of a concatenation contributes the empty string:
\* x + nil and nil + x give the string form of x, nil + nil the empty
\* string.
C10_NilConcat ==
    (job.kind = "nilconcat" /\ job.note = "nil" /\ pc # "text") => GivesWanted

\* C11: when the right operand of `in` evaluates to a list the result is
\* the environment's True iff the text of the probe's payload equals the
\* text of some element's payload, and the environment's False otherwise;
\* when it does not evaluate to a list the result is an error.
C11_InList ==
    (job.kind = "in" /\ pc # "text") =>
        /\ pc # "failed"
        /\ (pc = "done" /\ job.note = "list") =>
             /\ outcome.err = NoErr
             /\ outcome.res = StoredExpr(globalFuncs, IF job.want.b THEN sTrue ELSE sFalse)
        /\ (pc = "done" /\ job.note = "notlist") => outcome.err # NoErr

C11_Witness ==
    /\ job.kind = "in"
    /\ job.tree = NewInExpr(HostScalar(StringV(s7)),
                            ListOf(<<Operand(HostScalar(StringV(sA)), "string", sA),
                                     Operand(HostScalar(Int64V(7)), "int64", s7)>>))
    /\ pc = "done"
    /\ outcome.res.addr = "true"

\* C12: Match(text, pattern) is true iff the whole text matches the pattern
\* read as an anchored, case-insensitive glob (* zero or more characters,
\* ? exactly one); like gives the environment's True or False accordingly.
C12_MatchGlob ==
    (job.kind = "like" /\ pc = "done") =>
        /\ outcome.err = NoErr
        /\ outcome.res = StoredExpr(globalFuncs, IF job.want.b THEN sTrue ELSE sFalse)

\* C13: for every input holding a quoted string whose closing quote is
\* missing, wherever it stands, Parse returns an error.
C13_UnterminatedString ==
    (job.kind = "unterminated" /\ pc # "text") => (pc = "failed" /\ perr # NoErr)


\* C14: for every input in which a list literal is opened with "[" and the
\* text ends before the matching "]", Parse returns an error and never a
\* list with a nil error.
C14_UnclosedList ==
    (job.kind = "unclosedlist" /\ pc # "text") => (pc = "failed" /\ perr # NoErr)


\* What evaluating the argument a of a call gives: a scalar gives itself, a
\* call of print gives the null expression.
ArgResult(a) == IF a.kind = "Scalar" THEN a ELSE StoredExpr(globalFuncs, sNull)

\* C15: a call of a native function with n arguments hands its callback
\* exactly the n evaluated arguments, in order; a scoped call hands it the
\* evaluated scope and then the n evaluated arguments.
C15_CallbackArgs ==
    (job.kind = "call" /\ job.note = "args-ok" /\ pc = "done") =>
        /\ outcome.calls # <<>>
        /\ outcome.calls[Len(outcome.calls)].args =
             (IF tree.kind = "ScopedFuncCall" THEN <<StoredExpr(globalFuncs, sNull)>> ELSE <<>>)
               \o [k \in 1..(Len(tree.kids) - 1) |-> ArgResult(tree.kids[k + 1])]


\* The raw argument lists of the calls in the tree e.
RECURSIVE RawArgs(_)
RawArgs(e) ==
    (IF e.kind \in {"FuncCall", "ScopedFuncCall"}
       THEN {SubSeq(e.kids, 2, Len(e.kids))} ELSE {})
      \cup UNION {RawArgs(e.kids[k]) : k \in DOMAIN e.kids}

\* C16: every callback runs under a call frame holding its callee and the
\* raw argument expressions of its call, and once the evaluation of a call
\* has ended, with or without an error, the call stack is as deep as it
\* was before the evaluation started.
C16_FramesBalanced ==
    (job.kind = "call" /\ pc = "done") =>
        /\ outcome.stack = <<>>
        /\ \A k \in DOMAIN outcome.calls :
             LET c == outcome.calls[k] IN
             /\ Len(c.stack) = 1
             /\ c.stack[1].function = StoredExpr(HostEnvironment,
                    IF c.name = sF THEN sScopeF ELSE c.name)
             /\ c.stack[1].args \in RawArgs(tree)

\* Multiply, called with the result of a call of print, returned an error.
C16_Witness ==
    /\ job.kind = "call" /\ pc = "done"
    /\ tree = CallOf(sMultiply, <<PrintArg, HostScalar(Int64V(7))>>)
    /\ Len(outcome.calls) = 2
    /\ outcome.err = "Multiply must have two int arguments"
    /\ ~fatal


-----------------------------------------------------------------------------
(* Claims about the token stream *)

\* C17: for every input, run sends the EoF token exactly once, as the last
\* token it sends, and closes the channel once, after that token has been
\* received.
C17_EndOfInputOnce ==
    (client.mode # "none") =>
        /\ tokens.closes <= 1
        /\ \A k \in DOMAIN tokens.sent :
             tokens.sent[k].Type = "EoFTok" => (k = Len(tokens.sent) /\ tokens.todo = <<>>)
        /\ tokens.closed =>
             /\ tokens.sent # <<>>
             /\ tokens.sent[Len(tokens.sent)].Type = "EoFTok"

\* What the calls from the k-th on must have returned, s being the tokens
\* pushed back and not yet returned, the last pushed first, and rest the
\* tokens of the text not yet returned.
RECURSIVE Replay(_, _, _, _)
Replay(calls, k, s, rest) ==
    IF k > Len(calls) THEN TRUE
    ELSE IF calls[k].op = "PushBack" THEN Replay(calls, k + 1, <<calls[k].tok>> \o s, rest)
    ELSE IF s # <<>>
      THEN calls[k].tok = Head(s) /\ ~calls[k].fini /\ Replay(calls, k + 1, Tail(s), rest)
    ELSE IF rest # <<>>
      THEN calls[k].tok = Head(rest) /\ ~calls[k].fini /\ Replay(calls, k + 1, s, Tail(rest))
    ELSE calls[k].fini /\ Replay(calls, k + 1, s, rest)

\* C18: NextToken returns the pushed-back tokens first, the last pushed
\* first and with finished = false, and only then the next token of the
\* stream; the tokens of the stream are returned in the order of the text,
\* none lost and none twice, whatever the order of the calls.
C18_PushBackLIFO ==
    (client.mode # "none") =>
        Replay(client.calls, 1, <<>>, run(newLexer(FALSE, client.input)))

\* PushBack(a), PushBack(b), then NextToken three times: b, a and a token
\* of the stream.
C18_Witness ==
    /\ client.mode = "free"
    /\ \E k \in DOMAIN client.calls :
         /\ k + 4 <= Len(client.calls)
         /\ client.calls[k].op = "PushBack"
         /\ client.calls[k + 1].op = "PushBack"
         /\ client.calls[k].tok # client.calls[k + 1].tok
         /\ client.calls[k + 2] = Call("NextToken", client.calls[k + 1].tok, FALSE)
         /\ client.calls[k + 3] = Call("NextToken", client.calls[k].tok, FALSE)
         /\ client.calls[k + 4].op = "NextToken"
         /\ client.calls[k + 4].tok = tokens.sent[Len(tokens.sent)]

\* The parser has made every call of Parse and is not inside NextToken.
ParseReturned ==
    /\ client.mode = "parser"
    /\ Len(client.calls) = Len(client.script)
    /\ ~client.waiting

\* C20: Parse always returns: a caller blocked in NextToken is given a token
\* or the end of the stream, and the parser comes to the end of its calls.
C20_ParseReturns ==
    /\ (client.mode = "parser") ~> ParseReturned
    /\ client.waiting ~> ~client.waiting

\* The parser returned after NextToken had told it, more than once, that
\* the stream was closed.
C20_Witness ==
    /\ ParseReturned
    /\ tokens.closed
    /\ Cardinality({k \in DOMAIN client.calls : client.calls[k].fini}) > 1
    /\ \E k \in DOMAIN client.calls : client.calls[k].op = "PushBack"


\* C19: == between two scalars holding strings evaluates without an error,
\* to True when the strings are equal and to False when they are not; the
\* script of the README parses and evaluates without an error to true.
C19_StringEquality ==
    (job.kind = "streq" /\ pc # "text") =>
        /\ pc # "failed"
        /\ pc = "done" =>
             /\ outcome.err = NoErr
             /\ outcome.res = StoredExpr(globalFuncs, IF job.want.b THEN sTrue ELSE sFalse)


\* C21: for every conditional whose ":" is missing, the text ending after
\* the first branch or another token following it, Parse returns an error.
C21_MissingColon ==
    (job.kind = "nocolon" /\ pc # "text") => (pc = "failed" /\ perr # NoErr)


\* C22: a dotted chain a.b.c parses to the Symbol c scoped by a.b, a chain
\* with an argument list a.b(args) to the ScopedFuncCall b of scope a with
\* the parsed arguments, also when ")" ends the text, and what follows ")"
\* is left to the enclosing rule.
C22_DottedChains ==
    (job.kind = "dotted" /\ pc # "text") =>
        /\ pc # "failed"
        /\ perr = NoErr
        /\ tree = job.tree


\* C23: the tree Parse builds follows the precedence and associativity of
\* the grammar: || binds loosest, then &&, then the comparators, then +;
\* || and && group to the right, && gives an And node and || an Or node.
C23_Precedence ==
    (job.kind = "prec" /\ pc # "text") =>
        /\ perr = NoErr
        /\ tree = job.tree

\* a || b && c was parsed to Or(a, And(b, c)).
C23_Witness ==
    /\ job.kind = "prec"
    /\ pc = "done"
    /\ job.text = <<"a", " ", "|", "|", " ", "b", " ", "&", "&", " ", "c">>
    /\ tree = NewOrExpr(NewSymbolExpr(<<"a">>),
                        NewAndExpr(NewSymbolExpr(<<"b">>), NewSymbolExpr(<<"c">>)))


\* C24: a numeric literal is lexed into one Number token whose literal is
\* the whole literal and whose value is the number it denotes: decimal
\* digits, digits of base 16, 8 or 2 after 0x, 0o or 0b, or a float.
C24_NumberTokens ==
    (job.kind = "number" /\ pc # "text") =>
        LET out == run(newLexer(FALSE, job.text)) IN
        /\ Len(out) = 2
        /\ out[1].Type = "NumberTok"
        /\ out[1].Literal = job.text
        /\ out[1].Value = job.want
        /\ out[2].Type = "EoFTok"

\* The node of a finished "branch", "or" or "and" job answered as the
\* truthiness rule says: a Cond returned what its chosen branch gives, an Or
\* or And the Scalar of the boolean it denotes.
AnswersByRule ==
    IF job.kind = "branch"
      THEN LET pick == IF job.note = "truthy" THEN 3 ELSE 2
               b    == Evaluate(job.tree.kids[pick],
                                NewEvalState(NewEnvironment, AutoregisterGlobals), <<pick>>)
           IN  outcome.res = b.res /\ outcome.err = b.err
      ELSE /\ outcome.err = NoErr
           /\ outcome.res.kind = "Scalar"
           /\ outcome.res.value = job.want

\* C25: Cond, Or and And use one truthiness rule: an evaluated operand is
\* falsy iff it is the environment's Null or False, or its payload is nil or
\* the boolean false (also in a Scalar that is not the environment's False);
\* every other value is truthy.
C25_OneTruthiness ==
    (/\ job.kind \in {"branch", "or", "and"}
     /\ pc = "done"
     /\ job.note # "error"
     /\ job.kind # "branch" => job.want # NilV) => AnswersByRule

\* C26: Or does not evaluate its right operand when the left one is truthy,
\* And does not when the left one is falsy, otherwise the right operand is
\* evaluated exactly once; a result returned without an error is the very
\* expression stored under `true` or `false` in the environment.
C26_ShortCircuit ==
    (job.kind \in {"or", "and"} /\ pc = "done" /\ job.note # "error") =>
        LET skip == IF job.kind = "or" THEN "truthy" ELSE "falsy" IN
        /\ Evaluations(<<1>>) = 1
        /\ Evaluations(<<2>>) = IF job.note = skip THEN 0 ELSE 1
        /\ outcome.err = NoErr =>
             outcome.res \in {StoredExpr(globalFuncs, sTrue), StoredExpr(globalFuncs, sFalse)}

\* The place among the kids of the call e of its first argument whose
\* evaluation ends in an error (every call of Multiply made here does), 0
\* when there is none.
FirstFailing(e) ==
    LET bad == {k \in 2..Len(e.kids) : e.kids[k] = MultiplyArg} IN
    IF bad = {} THEN 0 ELSE Min(bad)

\* The arguments of the call e at the places 2..upto that are calls.
CallsAmong(e, upto) == {k \in 2..upto : e.kids[k].kind = "FuncCall"}

\* C27: when the callee of a call is not an invocable function, or the
\* evaluation of one of its arguments returns an error, the call returns an
\* error, its callback is not invoked, no later argument is evaluated and
\* the call stack is left as it was.
C27_FailedCall ==
    /\ (job.kind = "nofunc" /\ pc = "done") =>
         /\ outcome.err # NoErr
         /\ outcome.calls = <<>>
         /\ \A k \in 2..Len(tree.kids) : Evaluations(<<k>>) = 0
         /\ outcome.stack = <<>>
         /\ ~fatal
    /\ (job.kind = "call" /\ job.text = <<>> /\ job.note = "arg-fails" /\ pc = "done") =>
         LET i == FirstFailing(tree) IN
         /\ outcome.err # NoErr
         /\ Len(outcome.calls) = Cardinality(CallsAmong(tree, i))
         /\ \A k \in 2..Len(tree.kids) : Evaluations(<<k>>) = IF k <= i THEN 1 ELSE 0
         /\ outcome.stack = <<>>
         /\ ~fatal

\* print(Multiply(7, 7), print("a")): the first argument failed, the second
\* was not evaluated and print's callback did not run.
C27_Witness ==
    /\ job.kind = "call" /\ pc = "done"
    /\ tree = CallOf(sPrint, <<MultiplyArg, PrintArg>>)
    /\ outcome.err = "Multiply must have two int arguments"
    /\ Len(outcome.calls) = 1
    /\ Evaluations(<<3>>) = 0
    /\ outcome.stack = <<>>

\* C28: once Parse has returned, with or without an error, run has ended or
\* ends with no further call of the caller: it is never left in a send no
\* one receives, also when the parser stops before the end of the tokens.
C28_ProducerEnds ==
    ParseReturned ~> tokens.closed

\* The type of the payload the operand e of a "compare" job evaluates to.
PayloadType(e) ==
    IF e.kind = "Scalar" THEN e.value.t ELSE StoredExpr(NewEnvironment, e.name).value.t

\* The operands of the comparison hold payloads of two different types
\* compare supports.
MixedTypes ==
    /\ job.kind = "compare"
    /\ PayloadType(job.tree.kids[1]) \in {"bool", "int64", "uint64"}
    /\ PayloadType(job.tree.kids[2]) \in {"bool", "int64", "uint64"}
    /\ PayloadType(job.tree.kids[1]) # PayloadType(job.tree.kids[2])

\* C30: when the two Scalar operands of a comparison have non-nil payloads
\* of different supported types, compare returns the environment's False
\* and no error for each of the six operators.
C30_MixedTypesFalse ==
    (MixedTypes /\ pc = "done") =>
        /\ outcome.err = NoErr
        /\ outcome.res = StoredExpr(globalFuncs, sFalse)
        /\ ~fatal

\* true != 1 gave the environment's False.
C30_Witness ==
    /\ MixedTypes
    /\ job.tree = NewCompareExpr(opNe, HostScalar(BoolV(TRUE)), HostScalar(Int64V(1)))
    /\ pc = "done"
    /\ outcome.err = NoErr
    /\ outcome.res.addr = "false"

=============================================================================
